---------------------------- MODULE Spec2Model ----------------------------
(***************************************************************************)
(* A state-machine model of the Catan rules engine, server/gameLogic.js,   *)
(* together with the request handlers of server/index.js that call it.     *)
(*                                                                         *)
(* Conventions.                                                            *)
(*  - The game aggregate is the record `game`; every engine operation is   *)
(*    an operator from (game, arguments) to a record holding the game      *)
(*    after the call (field g) and the returned object (success, ...).     *)
(*  - `last` is the result the transport handed back for the last call,    *)
(*    `calls` the number of calls explored since the initial state.        *)
(*  - A vertex key `v_q_r_d` / edge key `e_q_r_d` is the tuple <<q,r,d>>,  *)
(*    a hex key `q,r` is <<q,r>>; the regular-expression decoding of a     *)
(*    well-formed key is the projection on its components.                 *)
(*  - Player ids (socket ids in the server) are positive integers.         *)
(*  - JavaScript null is Null (-1) for indices and ids, "none" for a       *)
(*    building or a resource, 0 for a number token, <<>> for an object.    *)
(*  - players is a function on 0..N-1, as the array is indexed.            *)
(*  - Display-only fields (name, color, icon, createdAt) are left out.     *)
(*  - Pixel positions are kept exactly, in units of HEX_SIZE/2 vertically  *)
(*    and HEX_SIZE*sqrt(3)/2 horizontally, so that squared distances are   *)
(*    integers.                                                            *)
(***************************************************************************)
EXTENDS Integers, Sequences, FiniteSets, TLC

VARIABLES game, last, calls

vars == <<game, last, calls>>

Null == -1

-----------------------------------------------------------------------------
(* Constants and configuration                                              *)

RESOURCES == {"brick", "lumber", "wool", "grain", "ore"}

ResourceOrder == <<"brick", "lumber", "wool", "grain", "ore">>

TerrainResource(t) ==
  CASE t = "hills" -> "brick"
    [] t = "forest" -> "lumber"
    [] t = "pasture" -> "wool"
    [] t = "fields" -> "grain"
    [] t = "mountains" -> "ore"
    [] OTHER -> "none"

NoResources == [brick |-> 0, lumber |-> 0, wool |-> 0, grain |-> 0, ore |-> 0]

BUILDING_COSTS ==
  [road |-> [NoResources EXCEPT !.brick = 1, !.lumber = 1],
   settlement |-> [NoResources EXCEPT !.brick = 1, !.lumber = 1, !.wool = 1, !.grain = 1],
   city |-> [NoResources EXCEPT !.ore = 3, !.grain = 2],
   developmentCard |-> [NoResources EXCEPT !.ore = 1, !.grain = 1, !.wool = 1]]

DEV_CARDS == {"knight", "victoryPoint", "roadBuilding", "yearOfPlenty", "monopoly"}

Rep(n, x) == [i \in 1..n |-> x]

DEV_CARD_DISTRIBUTION ==
  Rep(14, "knight") \o Rep(5, "victoryPoint") \o Rep(2, "roadBuilding")
    \o Rep(2, "yearOfPlenty") \o Rep(2, "monopoly")

HEX_POSITIONS_STANDARD ==
  << <<0, -2>>, <<1, -2>>, <<2, -2>>,
     <<-1, -1>>, <<0, -1>>, <<1, -1>>, <<2, -1>>,
     <<-2, 0>>, <<-1, 0>>, <<0, 0>>, <<1, 0>>, <<2, 0>>,
     <<-2, 1>>, <<-1, 1>>, <<0, 1>>, <<1, 1>>,
     <<-2, 2>>, <<-1, 2>>, <<0, 2>> >>

HEX_POSITIONS_EXTENDED ==
  << <<0, -3>>, <<1, -3>>, <<2, -3>>,
     <<-1, -2>>, <<0, -2>>, <<1, -2>>, <<2, -2>>,
     <<-2, -1>>, <<-1, -1>>, <<0, -1>>, <<1, -1>>, <<2, -1>>,
     <<-3, 0>>, <<-2, 0>>, <<-1, 0>>, <<0, 0>>, <<1, 0>>, <<2, 0>>,
     <<-3, 1>>, <<-2, 1>>, <<-1, 1>>, <<0, 1>>, <<1, 1>>,
     <<-3, 2>>, <<-2, 2>>, <<-1, 2>>, <<0, 2>>,
     <<-3, 3>>, <<-2, 3>>, <<-1, 3>> >>

TERRAIN_DISTRIBUTION_STANDARD ==
  Rep(3, "hills") \o Rep(4, "forest") \o Rep(4, "pasture") \o Rep(4, "fields")
    \o Rep(3, "mountains") \o Rep(1, "desert")

TERRAIN_DISTRIBUTION_EXTENDED ==
  Rep(5, "hills") \o Rep(6, "forest") \o Rep(6, "pasture") \o Rep(6, "fields")
    \o Rep(5, "mountains") \o Rep(2, "desert")

NUMBER_TOKENS_STANDARD ==
  <<2, 3, 3, 4, 4, 5, 5, 6, 6, 8, 8, 9, 9, 10, 10, 11, 11, 12>>

NUMBER_TOKENS_EXTENDED ==
  <<2, 2, 3, 3, 3, 4, 4, 4, 5, 5, 5, 6, 6, 6,
    8, 8, 8, 9, 9, 9, 10, 10, 10, 11, 11, 11, 12, 12>>

PortType(ratio, resource) == [ratio |-> ratio, resource |-> resource]

PORT_TYPES ==
  [GENERIC |-> PortType(3, "none"), BRICK |-> PortType(2, "brick"),
   LUMBER |-> PortType(2, "lumber"), WOOL |-> PortType(2, "wool"),
   GRAIN |-> PortType(2, "grain"), ORE |-> PortType(2, "ore")]

PortPos(v1, v2, type) == [vertices |-> <<v1, v2>>, type |-> type]

PORT_POSITIONS_STANDARD ==
  << PortPos(<<0, -2, 0>>, <<0, -2, 5>>, "GENERIC"),
     PortPos(<<1, -2, 0>>, <<1, -2, 1>>, "GRAIN"),
     PortPos(<<2, -2, 1>>, <<2, -2, 2>>, "ORE"),
     PortPos(<<2, -1, 2>>, <<2, 0, 1>>, "GENERIC"),
     PortPos(<<2, 0, 2>>, <<2, 0, 3>>, "WOOL"),
     PortPos(<<1, 1, 2>>, <<1, 1, 3>>, "GENERIC"),
     PortPos(<<0, 2, 3>>, <<0, 2, 4>>, "GENERIC"),
     PortPos(<<-2, 2, 3>>, <<-2, 2, 4>>, "BRICK"),
     PortPos(<<-2, 0, 4>>, <<-2, 0, 5>>, "LUMBER") >>

PORT_POSITIONS_EXTENDED ==
  << PortPos(<<0, -3, 0>>, <<0, -3, 5>>, "GENERIC"),
     PortPos(<<1, -3, 0>>, <<1, -3, 1>>, "GRAIN"),
     PortPos(<<2, -3, 1>>, <<2, -3, 2>>, "ORE"),
     PortPos(<<2, -2, 2>>, <<2, -1, 1>>, "GENERIC"),
     PortPos(<<2, -1, 2>>, <<2, 0, 1>>, "WOOL"),
     PortPos(<<2, 0, 2>>, <<1, 1, 1>>, "GENERIC"),
     PortPos(<<0, 2, 2>>, <<0, 2, 3>>, "BRICK"),
     PortPos(<<-1, 3, 3>>, <<-2, 3, 2>>, "GENERIC"),
     PortPos(<<-3, 3, 3>>, <<-3, 3, 4>>, "LUMBER"),
     PortPos(<<-3, 2, 4>>, <<-3, 1, 3>>, "GENERIC"),
     PortPos(<<-3, 0, 4>>, <<-3, 0, 5>>, "GENERIC") >>

-----------------------------------------------------------------------------
(* Generic helpers                                                          *)

Range(s) == {s[i] : i \in DOMAIN s}

RECURSIVE SumSeq(_)
SumSeq(s) == IF s = <<>> THEN 0 ELSE Head(s) + SumSeq(Tail(s))

(* Object.values(resources).reduce((a, b) => a + b, 0) *)
TotalCards(res) == SumSeq([i \in 1..5 |-> res[ResourceOrder[i]]])

Min2(a, b) == IF a < b THEN a ELSE b

(* Number of entries of an array kept as a function on 0..n-1 *)
Length(arr) == Cardinality(DOMAIN arr)

(* Array.prototype.indexOf on a sequence: the first index of x, or Null *)
indexOf(s, x) ==
  IF \E i \in DOMAIN s : s[i] = x
  THEN CHOOSE i \in DOMAIN s : s[i] = x /\ \A j \in DOMAIN s : s[j] = x => i <= j
  ELSE Null

(* Array.prototype.splice(i, 1) on a sequence *)
RemoveAt(s, i) == [j \in 1..(Len(s) - 1) |-> IF j < i THEN s[j] ELSE s[j + 1]]

-----------------------------------------------------------------------------
(* Key generation                                                           *)

hexKey(q, r) == <<q, r>>

vertexKey(hexQ, hexR, direction) == <<hexQ, hexR, direction>>

edgeKey(hexQ, hexR, direction) == <<hexQ, hexR, direction>>

Coord(q, r, dir) == [q |-> q, r |-> r, dir |-> dir]

-----------------------------------------------------------------------------
(* Coordinate system: vertex and edge relationships                         *)

getEquivalentVertices(q, r, dir) ==
  <<Coord(q, r, dir)>> \o
  CASE dir = 0 -> <<Coord(q, r - 1, 2), Coord(q + 1, r - 1, 4)>>
    [] dir = 1 -> <<Coord(q + 1, r - 1, 3), Coord(q + 1, r, 5)>>
    [] dir = 2 -> <<Coord(q + 1, r, 4), Coord(q, r + 1, 0)>>
    [] dir = 3 -> <<Coord(q, r + 1, 5), Coord(q - 1, r + 1, 1)>>
    [] dir = 4 -> <<Coord(q - 1, r + 1, 0), Coord(q - 1, r, 2)>>
    [] dir = 5 -> <<Coord(q - 1, r, 1), Coord(q, r - 1, 3)>>
    [] OTHER -> <<>>

areVerticesEqual(vKey1, vKey2) ==
  \/ vKey1 = vKey2
  \/ LET equivalents == getEquivalentVertices(vKey1[1], vKey1[2], vKey1[3])
     IN \E i \in DOMAIN equivalents :
          /\ equivalents[i].q = vKey2[1]
          /\ equivalents[i].r = vKey2[2]
          /\ equivalents[i].dir = vKey2[3]

(* vertex?.building on a key that may be off the board *)
VertexAt(g, vKey) ==
  IF vKey \in DOMAIN g.vertices THEN g.vertices[vKey]
  ELSE [building |-> "none", owner |-> Null]

EdgeAt(g, eKey) ==
  IF eKey \in DOMAIN g.edges THEN g.edges[eKey]
  ELSE [road |-> FALSE, owner |-> Null]

hasPlayerBuildingAtVertex(g, vKey, playerIndex) ==
  LET equivalents == getEquivalentVertices(vKey[1], vKey[2], vKey[3])
  IN \E i \in DOMAIN equivalents :
       LET vertex == VertexAt(g, vertexKey(equivalents[i].q, equivalents[i].r, equivalents[i].dir))
       IN vertex.owner = playerIndex /\ vertex.building # "none"

(* hasBuildingAtVertex that looks under the given key only *)
hasBuildingAtVertexExactKey(g, vKey) ==
  VertexAt(g, vKey).building # "none"

hasBuildingAtVertex(g, vKey) ==
  LET equivalents == getEquivalentVertices(vKey[1], vKey[2], vKey[3])
  IN \E i \in DOMAIN equivalents :
       VertexAt(g, vertexKey(equivalents[i].q, equivalents[i].r, equivalents[i].dir)).building # "none"

-----------------------------------------------------------------------------
(* Geometry                                                                 *)

HEX_SIZE == 50

(* cos(angle) in units of sqrt(3)/2, sin(angle) in units of 1/2, for the    *)
(* angles [90, 30, -30, -90, -150, 150] of directions 0..5                  *)
CosUnits == <<0, 1, 1, 0, -1, -1>>
SinUnits == <<2, 1, -1, -2, -1, 1>>

(* x = (HEX_SIZE*sqrt(3)/2) * xu,  y = (HEX_SIZE/2) * yu *)
getVertexPixelPosition(q, r, dir) ==
  [xu |-> (2 * q + r) + CosUnits[dir + 1],
   yu |-> 3 * r - SinUnits[dir + 1]]

(* dx*dx + dy*dy of two positions, an integer *)
SquaredDistance(pos1, pos2) ==
  LET dxu == pos1.xu - pos2.xu
      dyu == pos1.yu - pos2.yu
      half == HEX_SIZE \div 2
  IN 3 * half * half * dxu * dxu + half * half * dyu * dyu

(* Math.abs(distance - HEX_SIZE) < 1 *)
areVerticesAdjacent(vKey1, vKey2) ==
  LET d2 == SquaredDistance(getVertexPixelPosition(vKey1[1], vKey1[2], vKey1[3]),
                            getVertexPixelPosition(vKey2[1], vKey2[2], vKey2[3]))
  IN (HEX_SIZE - 1) * (HEX_SIZE - 1) < d2 /\ d2 < (HEX_SIZE + 1) * (HEX_SIZE + 1)

(* distance < 1 *)
areVerticesAtSamePosition(vKey1, vKey2) ==
  SquaredDistance(getVertexPixelPosition(vKey1[1], vKey1[2], vKey1[3]),
                  getVertexPixelPosition(vKey2[1], vKey2[2], vKey2[3])) < 1

hasAdjacentBuilding(g, vKey) ==
  \E otherKey \in DOMAIN g.vertices :
    /\ g.vertices[otherKey].building # "none"
    /\ ~areVerticesAtSamePosition(vKey, otherKey)
    /\ areVerticesAdjacent(vKey, otherKey)

(* null (<<>>) or <<{owner, type, vertexKey}>> of the first equivalent key  *)
(* that holds a building                                                    *)
findBuildingAtHexVertex(g, q, r, dir) ==
  LET equivalents == getEquivalentVertices(q, r, dir)
      keyOf(i) == vertexKey(equivalents[i].q, equivalents[i].r, equivalents[i].dir)
      hits == {i \in DOMAIN equivalents : VertexAt(g, keyOf(i)).building # "none"}
  IN IF hits = {} THEN <<>>
     ELSE LET i == CHOOSE k \in hits : \A m \in hits : k <= m
          IN <<[owner |-> VertexAt(g, keyOf(i)).owner,
                type |-> VertexAt(g, keyOf(i)).building,
                vertexKey |-> keyOf(i)]>>

(* getEquivalentEdges with a wrong partner for the upper-left edge *)
getEquivalentEdgesSkewed(q, r, dir) ==
  <<Coord(q, r, dir)>> \o
  CASE dir = 0 -> <<Coord(q + 1, r - 1, 3)>>
    [] dir = 1 -> <<Coord(q + 1, r, 4)>>
    [] dir = 2 -> <<Coord(q, r + 1, 5)>>
    [] dir = 3 -> <<Coord(q - 1, r + 1, 0)>>
    [] dir = 4 -> <<Coord(q - 1, r, 1)>>
    [] dir = 5 -> <<Coord(q, r - 1, 1)>>
    [] OTHER -> <<>>

getEquivalentEdges(q, r, dir) ==
  <<Coord(q, r, dir)>> \o
  CASE dir = 0 -> <<Coord(q + 1, r - 1, 3)>>
    [] dir = 1 -> <<Coord(q + 1, r, 4)>>
    [] dir = 2 -> <<Coord(q, r + 1, 5)>>
    [] dir = 3 -> <<Coord(q - 1, r + 1, 0)>>
    [] dir = 4 -> <<Coord(q - 1, r, 1)>>
    [] dir = 5 -> <<Coord(q, r - 1, 2)>>
    [] OTHER -> <<>>

(* null (<<>>) or <<{road, owner, key}>> *)
hasRoadAtEdge(g, eKey) ==
  LET equivalents == getEquivalentEdges(eKey[1], eKey[2], eKey[3])
      keyOf(i) == edgeKey(equivalents[i].q, equivalents[i].r, equivalents[i].dir)
      hits == {i \in DOMAIN equivalents : EdgeAt(g, keyOf(i)).road}
  IN IF hits = {} THEN <<>>
     ELSE LET i == CHOOSE k \in hits : \A m \in hits : k <= m
          IN <<[road |-> TRUE, owner |-> EdgeAt(g, keyOf(i)).owner, key |-> keyOf(i)]>>

hasPlayerRoadAtEdge(g, eKey, playerIndex) ==
  LET roadInfo == hasRoadAtEdge(g, eKey)
  IN roadInfo # <<>> /\ roadInfo[1].owner = playerIndex

getVertexEdgesFromHex(q, r, dir) ==
  CASE dir = 0 -> <<edgeKey(q, r, 5), edgeKey(q, r, 0), edgeKey(q, r - 1, 1)>>
    [] dir = 1 -> <<edgeKey(q, r, 0), edgeKey(q, r, 1), edgeKey(q + 1, r - 1, 2)>>
    [] dir = 2 -> <<edgeKey(q, r, 1), edgeKey(q, r, 2), edgeKey(q + 1, r, 3)>>
    [] dir = 3 -> <<edgeKey(q, r, 2), edgeKey(q, r, 3), edgeKey(q, r + 1, 4)>>
    [] dir = 4 -> <<edgeKey(q, r, 3), edgeKey(q, r, 4), edgeKey(q - 1, r + 1, 5)>>
    [] dir = 5 -> <<edgeKey(q, r, 4), edgeKey(q, r, 5), edgeKey(q - 1, r, 0)>>
    [] OTHER -> <<>>

(* a.q - b.q || a.r - b.r || a.dir - b.dir, as an order *)
CoordLess(a, b) ==
  \/ a.q < b.q
  \/ a.q = b.q /\ a.r < b.r
  \/ a.q = b.q /\ a.r = b.r /\ a.dir < b.dir

getCanonicalEdgeKey(eKey) ==
  LET equivs == getEquivalentEdges(eKey[1], eKey[2], eKey[3])
      first == CHOOSE c \in Range(equivs) :
                 \A d \in Range(equivs) : c = d \/ CoordLess(c, d)
  IN edgeKey(first.q, first.r, first.dir)

(* the edges getVertexEdgesFromHex yields for every equivalent vertex, in   *)
(* the order met                                                            *)
RECURSIVE AllVertexEdges(_)
AllVertexEdges(equivalentVertices) ==
  IF equivalentVertices = <<>> THEN <<>>
  ELSE getVertexEdgesFromHex(Head(equivalentVertices).q, Head(equivalentVertices).r,
                             Head(equivalentVertices).dir)
         \o AllVertexEdges(Tail(equivalentVertices))

(* The original keys kept by the canonical-key Map: the first key met for   *)
(* each canonical key, in the order met                                     *)
RECURSIVE FirstMet(_, _)
FirstMet(all, i) ==
  IF i > Len(all) THEN <<>>
  ELSE (IF \A j \in 1..(i - 1) : getCanonicalEdgeKey(all[j]) # getCanonicalEdgeKey(all[i])
        THEN <<all[i]>> ELSE <<>>) \o FirstMet(all, i + 1)

getVertexEdges(vKey) ==
  FirstMet(AllVertexEdges(getEquivalentVertices(vKey[1], vKey[2], vKey[3])), 1)

getAdjacentVertices(vKey) ==
  LET q == vKey[1]
      r == vKey[2]
      dir == vKey[3]
  IN <<vertexKey(q, r, (dir + 1) % 6), vertexKey(q, r, (dir + 5) % 6)>> \o
     CASE dir = 0 -> <<vertexKey(q, r - 1, 1)>>
       [] dir = 1 -> <<vertexKey(q + 1, r - 1, 2)>>
       [] dir = 2 -> <<vertexKey(q + 1, r, 3)>>
       [] dir = 3 -> <<vertexKey(q, r + 1, 4)>>
       [] dir = 4 -> <<vertexKey(q - 1, r + 1, 5)>>
       [] dir = 5 -> <<vertexKey(q - 1, r, 0)>>
       [] OTHER -> <<>>

(* getAdjacentHexesToVertex with a wrong second neighbour of the            *)
(* lower-right corner                                                       *)
getAdjacentHexesToVertexSkewed(q, r, dir) ==
  <<hexKey(q, r)>> \o
  CASE dir = 0 -> <<hexKey(q, r - 1), hexKey(q + 1, r - 1)>>
    [] dir = 1 -> <<hexKey(q + 1, r - 1), hexKey(q + 1, r)>>
    [] dir = 2 -> <<hexKey(q + 1, r), hexKey(q + 1, r + 1)>>
    [] dir = 3 -> <<hexKey(q, r + 1), hexKey(q - 1, r + 1)>>
    [] dir = 4 -> <<hexKey(q - 1, r + 1), hexKey(q - 1, r)>>
    [] dir = 5 -> <<hexKey(q - 1, r), hexKey(q, r - 1)>>
    [] OTHER -> <<>>

getAdjacentHexesToVertex(q, r, dir) ==
  <<hexKey(q, r)>> \o
  CASE dir = 0 -> <<hexKey(q, r - 1), hexKey(q + 1, r - 1)>>
    [] dir = 1 -> <<hexKey(q + 1, r - 1), hexKey(q + 1, r)>>
    [] dir = 2 -> <<hexKey(q + 1, r), hexKey(q, r + 1)>>
    [] dir = 3 -> <<hexKey(q, r + 1), hexKey(q - 1, r + 1)>>
    [] dir = 4 -> <<hexKey(q - 1, r + 1), hexKey(q - 1, r)>>
    [] dir = 5 -> <<hexKey(q - 1, r), hexKey(q, r - 1)>>
    [] OTHER -> <<>>

getEdgeVertices(q, r, dir) ==
  CASE dir = 0 -> <<vertexKey(q, r, 0), vertexKey(q, r, 1)>>
    [] dir = 1 -> <<vertexKey(q, r, 1), vertexKey(q, r, 2)>>
    [] dir = 2 -> <<vertexKey(q, r, 2), vertexKey(q, r, 3)>>
    [] dir = 3 -> <<vertexKey(q, r, 3), vertexKey(q, r, 4)>>
    [] dir = 4 -> <<vertexKey(q, r, 4), vertexKey(q, r, 5)>>
    [] dir = 5 -> <<vertexKey(q, r, 5), vertexKey(q, r, 0)>>
    [] OTHER -> <<>>

-----------------------------------------------------------------------------
(* Game state management                                                    *)

(* The hex map built by the forEach over HEX_POSITIONS: terrain tile by     *)
(* tile, number tokens to the non-desert tiles in token order               *)
BuildHexes(positions, shuffledTerrain, shuffledNumbers) ==
  LET numberIndex(i) == Cardinality({j \in 1..(i - 1) : shuffledTerrain[j] # "desert"})
      idx(k) == CHOOSE i \in DOMAIN positions : positions[i] = k
  IN [k \in Range(positions) |->
        [q |-> k[1], r |-> k[2],
         terrain |-> shuffledTerrain[idx(k)],
         resource |-> TerrainResource(shuffledTerrain[idx(k)]),
         number |-> IF shuffledTerrain[idx(k)] = "desert" THEN 0
                    ELSE shuffledNumbers[numberIndex(idx(k)) + 1]]]

(* desertHex: the last desert tile met in position order *)
DesertHex(positions, shuffledTerrain) ==
  LET deserts == {i \in DOMAIN positions : shuffledTerrain[i] = "desert"}
  IN IF deserts = {} THEN <<>>
     ELSE positions[CHOOSE i \in deserts : \A j \in deserts : j <= i]

NewPlayer(id) ==
  [id |-> id,
   turnOrder |-> Null,
   resources |-> NoResources,
   developmentCards |-> <<>>,
   newDevCards |-> <<>>,
   knightsPlayed |-> 0,
   victoryPoints |-> 0,
   hiddenVictoryPoints |-> 0,
   settlements |-> 5,
   cities |-> 4,
   roads |-> 15,
   hasLongestRoad |-> FALSE,
   hasLargestArmy |-> FALSE,
   roadLength |-> 0]

NoDice == [die1 |-> 0, die2 |-> 0, total |-> 0]

(* createGame; the three shuffles are the arguments shuffledTerrain,        *)
(* shuffledNumbers and shuffledDeck                                         *)
createGame(hostId, isExtended, enableSpecialBuild, shuffledTerrain, shuffledNumbers, shuffledDeck) ==
  LET positions == IF isExtended THEN HEX_POSITIONS_EXTENDED ELSE HEX_POSITIONS_STANDARD
      portPositions == IF isExtended THEN PORT_POSITIONS_EXTENDED ELSE PORT_POSITIONS_STANDARD
      hexes == BuildHexes(positions, shuffledTerrain, shuffledNumbers)
      keys == {<<k[1], k[2], dir>> : k \in DOMAIN hexes, dir \in 0..5}
  IN [phase |-> "waiting",
      setupPhase |-> 0,
      currentPlayerIndex |-> 0,
      turnPhase |-> "roll",
      isExtended |-> isExtended,
      maxPlayers |-> IF isExtended THEN 6 ELSE 4,
      enableSpecialBuild |-> enableSpecialBuild,
      specialBuildingPhase |-> FALSE,
      specialBuildIndex |-> 0,
      ports |-> [i \in DOMAIN portPositions |->
                   [id |-> i - 1,
                    vertices |-> portPositions[i].vertices,
                    type |-> portPositions[i].type,
                    ratio |-> PORT_TYPES[portPositions[i].type].ratio,
                    resource |-> PORT_TYPES[portPositions[i].type].resource]],
      players |-> [i \in {0} |-> NewPlayer(hostId)],
      hexes |-> hexes,
      vertices |-> [k \in keys |-> [building |-> "none", owner |-> Null]],
      edges |-> [k \in keys |-> [road |-> FALSE, owner |-> Null]],
      robber |-> DesertHex(positions, shuffledTerrain),
      devCardDeck |-> shuffledDeck,
      longestRoadPlayer |-> Null,
      longestRoadLength |-> 4,
      largestArmyPlayer |-> Null,
      largestArmySize |-> 2,
      diceRoll |-> NoDice,
      winner |-> Null,
      tradeOffer |-> <<>>,
      discardingPlayers |-> <<>>,
      freeRoads |-> 0,
      yearOfPlentyPicks |-> 0,
      devCardPlayedThisTurn |-> FALSE,
      hasRolledThisTurn |-> FALSE]

Fail(g, error) == [g |-> g, success |-> FALSE, error |-> error]

Ok(g) == [g |-> g, success |-> TRUE, error |-> ""]

(* players.findIndex(p => p.id === playerId): first index or Null *)
findPlayerIndex(g, playerId) ==
  LET hits == {i \in DOMAIN g.players : g.players[i].id = playerId}
  IN IF hits = {} THEN Null ELSE CHOOSE i \in hits : \A j \in hits : i <= j

addPlayer(g, playerId) ==
  IF Length(g.players) >= g.maxPlayers THEN Fail(g, "Game is full")
  ELSE IF g.phase # "waiting" THEN Fail(g, "Game already started")
  ELSE Ok([g EXCEPT !.players =
             [i \in 0..Length(g.players) |->
                IF i < Length(g.players) THEN g.players[i] ELSE NewPlayer(playerId)]])

(* startGame that leaves the turn numbers as they were *)
startGameKeepsTurnOrder(g, playerOrder) ==
  IF Length(g.players) < 2 THEN Fail(g, "Need at least 2 players")
  ELSE Ok([g EXCEPT
             !.players = [newIdx \in DOMAIN g.players |-> g.players[playerOrder[newIdx]]],
             !.phase = "setup",
             !.setupPhase = 0,
             !.currentPlayerIndex = 0])

(* startGame; playerOrder is the outcome of the in-place shuffle: a         *)
(* permutation of the indices, newIdx -> oldIdx                             *)
startGame(g, playerOrder) ==
  IF Length(g.players) < 2 THEN Fail(g, "Need at least 2 players")
  ELSE Ok([g EXCEPT
             !.players = [newIdx \in DOMAIN g.players |->
                            [g.players[playerOrder[newIdx]] EXCEPT !.turnOrder = newIdx + 1]],
             !.phase = "setup",
             !.setupPhase = 0,
             !.currentPlayerIndex = 0])

shuffleBoard(g, shuffledTerrain, shuffledNumbers) ==
  IF g.phase # "waiting" THEN Fail(g, "Can only shuffle before game starts")
  ELSE LET positions == IF g.isExtended THEN HEX_POSITIONS_EXTENDED ELSE HEX_POSITIONS_STANDARD
       IN Ok([g EXCEPT
                !.hexes = BuildHexes(positions, shuffledTerrain, shuffledNumbers),
                !.robber = DesertHex(positions, shuffledTerrain)])

-----------------------------------------------------------------------------
(* Helper functions                                                         *)

hasResources(player, costs) ==
  \A res \in RESOURCES : ~(player.resources[res] < costs[res])

(* the player's resources after deductResources(player, costs) *)
deductResources(player, costs) ==
  [player EXCEPT !.resources = [res \in RESOURCES |-> player.resources[res] - costs[res]]]

-----------------------------------------------------------------------------
(* Victory condition                                                        *)

checkWinner(g) ==
  LET total(i) == g.players[i].victoryPoints + g.players[i].hiddenVictoryPoints
      winners == {i \in DOMAIN g.players : total(i) >= 10}
  IN IF winners = {} THEN g
     ELSE LET w == CHOOSE i \in winners : \A j \in winners : i <= j
          IN [g EXCEPT
                !.phase = "finished",
                !.winner = g.players[w].id,
                !.players = [i \in DOMAIN g.players |->
                               [g.players[i] EXCEPT !.victoryPoints = total(i),
                                                    !.hiddenVictoryPoints = 0]]]

-----------------------------------------------------------------------------
(* Turn actions                                                             *)

(* The buildings distributeResources credits for one hex: the distinct      *)
(* (hex, found vertex key) pairs of processedHexVertices                    *)
HexBuildings(g, hKey) ==
  LET found(dir) == findBuildingAtHexVertex(g, g.hexes[hKey].q, g.hexes[hKey].r, dir)
  IN {found(dir)[1] : dir \in {d \in 0..5 : found(d) # <<>> /\ found(d)[1].owner # Null}}

RECURSIVE SumAmounts(_)
SumAmounts(bs) ==
  IF bs = {} THEN 0
  ELSE LET b == CHOOSE x \in bs : TRUE
       IN (IF b.type = "city" THEN 2 ELSE 1) + SumAmounts(bs \ {b})

RECURSIVE SumOverHexes(_, _, _, _)
SumOverHexes(g, hs, idx, res) ==
  IF hs = {} THEN 0
  ELSE LET h == CHOOSE x \in hs : TRUE
       IN (IF g.hexes[h].resource = res
           THEN SumAmounts({b \in HexBuildings(g, h) : b.owner = idx})
           ELSE 0)
          + SumOverHexes(g, hs \ {h}, idx, res)

(* distributeResources without the robber's block *)
distributeResourcesOnRobberHex(g, roll) ==
  LET matching == {hKey \in DOMAIN g.hexes : g.hexes[hKey].number = roll}
      gains == [idx \in DOMAIN g.players |->
                  [res \in RESOURCES |-> SumOverHexes(g, matching, idx, res)]]
  IN [g |-> [g EXCEPT !.players =
               [idx \in DOMAIN g.players |->
                  [g.players[idx] EXCEPT !.resources =
                     [res \in RESOURCES |-> g.players[idx].resources[res] + gains[idx][res]]]]],
      gains |-> gains]

(* returns the game after the credits and the gains object *)
distributeResources(g, roll) ==
  LET matching == {hKey \in DOMAIN g.hexes : g.hexes[hKey].number = roll /\ hKey # g.robber}
      gains == [idx \in DOMAIN g.players |->
                  [res \in RESOURCES |-> SumOverHexes(g, matching, idx, res)]]
  IN [g |-> [g EXCEPT !.players =
               [idx \in DOMAIN g.players |->
                  [g.players[idx] EXCEPT !.resources =
                     [res \in RESOURCES |-> g.players[idx].resources[res] + gains[idx][res]]]]],
      gains |-> gains]

(* playersToDiscard, in player order *)
RECURSIVE PlayersToDiscard(_, _)
PlayersToDiscard(g, idx) ==
  IF idx >= Length(g.players) THEN <<>>
  ELSE LET totalCards == TotalCards(g.players[idx].resources)
       IN (IF totalCards > 7
           THEN <<[playerIndex |-> idx, cardsToDiscard |-> totalCards \div 2]>>
           ELSE <<>>) \o PlayersToDiscard(g, idx + 1)

(* rollDice; die1 and die2 are the two random draws *)
rollDice(g, playerId, die1, die2) ==
  IF g.players[g.currentPlayerIndex].id # playerId
  THEN Fail(g, "Not your turn") @@ [roll |-> NoDice, resourceGains |-> <<>>]
  ELSE IF g.turnPhase # "roll"
  THEN Fail(g, "Cannot roll now") @@ [roll |-> NoDice, resourceGains |-> <<>>]
  ELSE
    LET total == die1 + die2
        g1 == [g EXCEPT !.diceRoll = [die1 |-> die1, die2 |-> die2, total |-> total],
                        !.hasRolledThisTurn = TRUE]
    IN IF total = 7
       THEN LET playersToDiscard == PlayersToDiscard(g1, 0)
            IN Ok(IF Len(playersToDiscard) > 0
                  THEN [g1 EXCEPT !.turnPhase = "discard",
                                  !.discardingPlayers = playersToDiscard]
                  ELSE [g1 EXCEPT !.turnPhase = "robber"])
               @@ [roll |-> g1.diceRoll, resourceGains |-> <<>>]
       ELSE LET d == distributeResources(g1, total)
            IN Ok([d.g EXCEPT !.turnPhase = "main"])
               @@ [roll |-> g1.diceRoll, resourceGains |-> d.gains]

(* discardCards without the check of the cards held *)
discardCardsNotHeld(g, playerId, resources) ==
  LET playerIndex == findPlayerIndex(g, playerId)
      infoAt == {i \in DOMAIN g.discardingPlayers :
                   g.discardingPlayers[i].playerIndex = playerIndex}
  IN IF playerIndex = Null THEN Fail(g, "Player not found")
     ELSE IF infoAt = {} THEN Fail(g, "You do not need to discard")
     ELSE
       LET discardInfo == g.discardingPlayers[CHOOSE i \in infoAt : \A j \in infoAt : i <= j]
           player == g.players[playerIndex]
       IN IF TotalCards(resources) # discardInfo.cardsToDiscard
          THEN Fail(g, "Must discard exactly the owed cards")
          ELSE
            LET remaining == SelectSeq(g.discardingPlayers,
                                       LAMBDA d : d.playerIndex # playerIndex)
            IN Ok([g EXCEPT
                     !.players[playerIndex] = deductResources(player, resources),
                     !.discardingPlayers = remaining,
                     !.turnPhase = IF Len(remaining) = 0 THEN "robber" ELSE @])

(* discardCards; resources maps every resource to the amount discarded *)
discardCards(g, playerId, resources) ==
  LET playerIndex == findPlayerIndex(g, playerId)
      infoAt == {i \in DOMAIN g.discardingPlayers :
                   g.discardingPlayers[i].playerIndex = playerIndex}
  IN IF playerIndex = Null THEN Fail(g, "Player not found")
     ELSE IF infoAt = {} THEN Fail(g, "You do not need to discard")
     ELSE
       LET discardInfo == g.discardingPlayers[CHOOSE i \in infoAt : \A j \in infoAt : i <= j]
           player == g.players[playerIndex]
       IN IF TotalCards(resources) # discardInfo.cardsToDiscard
          THEN Fail(g, "Must discard exactly the owed cards")
          ELSE IF \E res \in RESOURCES : player.resources[res] < resources[res]
          THEN Fail(g, "Not enough resources")
          ELSE
            LET remaining == SelectSeq(g.discardingPlayers,
                                       LAMBDA d : d.playerIndex # playerIndex)
            IN Ok([g EXCEPT
                     !.players[playerIndex] = deductResources(player, resources),
                     !.discardingPlayers = remaining,
                     !.turnPhase = IF Len(remaining) = 0 THEN "robber" ELSE @])

(* the resource types the victim holds, in the order of Object.entries *)
AvailableResources(player) ==
  SelectSeq(ResourceOrder, LAMBDA res : player.resources[res] > 0)

(* moveRobber that always resumes the turn in main *)
moveRobberToMain(g, playerId, hKey, stealFromPlayerId, u) ==
  IF g.players[g.currentPlayerIndex].id # playerId
  THEN Fail(g, "Not your turn") @@ [stolenInfo |-> <<>>]
  ELSE IF g.turnPhase # "robber"
  THEN Fail(g, "Cannot move robber now") @@ [stolenInfo |-> <<>>]
  ELSE IF hKey \notin DOMAIN g.hexes
  THEN Fail(g, "Invalid hex") @@ [stolenInfo |-> <<>>]
  ELSE IF hKey = g.robber
  THEN Fail(g, "Must move robber to a different hex") @@ [stolenInfo |-> <<>>]
  ELSE Ok([g EXCEPT !.robber = hKey, !.turnPhase = "main"]) @@ [stolenInfo |-> <<>>]

(* moveRobber; stealFromPlayerId is Null when none is given, u stands for   *)
(* the random draw: u % length is the index Math.floor(Math.random() *      *)
(* length) picks                                                            *)
moveRobber(g, playerId, hKey, stealFromPlayerId, u) ==
  IF g.players[g.currentPlayerIndex].id # playerId
  THEN Fail(g, "Not your turn") @@ [stolenInfo |-> <<>>]
  ELSE IF g.turnPhase # "robber"
  THEN Fail(g, "Cannot move robber now") @@ [stolenInfo |-> <<>>]
  ELSE IF hKey \notin DOMAIN g.hexes
  THEN Fail(g, "Invalid hex") @@ [stolenInfo |-> <<>>]
  ELSE IF hKey = g.robber
  THEN Fail(g, "Must move robber to a different hex") @@ [stolenInfo |-> <<>>]
  ELSE
    LET victimIndex == IF stealFromPlayerId = Null THEN Null
                       ELSE findPlayerIndex(g, stealFromPlayerId)
        steals == /\ victimIndex # Null
                  /\ victimIndex # g.currentPlayerIndex
                  /\ Len(AvailableResources(g.players[victimIndex])) > 0
        availableResources == AvailableResources(g.players[victimIndex])
        stolenResource == availableResources[(u % Len(availableResources)) + 1]
        g1 == [g EXCEPT !.robber = hKey]
        g2 == IF steals
              THEN [g1 EXCEPT
                      !.players = [i \in DOMAIN g.players |->
                         [g.players[i] EXCEPT !.resources[stolenResource] =
                            @ + (IF i = g.currentPlayerIndex THEN 1 ELSE 0)
                              - (IF i = victimIndex THEN 1 ELSE 0)]]]
              ELSE g1
    IN Ok([g2 EXCEPT !.turnPhase = IF g.hasRolledThisTurn THEN "main" ELSE "roll"])
       @@ [stolenInfo |-> IF steals
                          THEN <<[resource |-> stolenResource,
                                  thief |-> playerId,
                                  victim |-> g.players[victimIndex].id]>>
                          ELSE <<>>]

-----------------------------------------------------------------------------
(* Longest road                                                             *)

hasOpponentBuildingAtVertex(g, vKey, playerIndex) ==
  LET equivalents == getEquivalentVertices(vKey[1], vKey[2], vKey[3])
  IN \E i \in DOMAIN equivalents :
       LET vertex == VertexAt(g, vertexKey(equivalents[i].q, equivalents[i].r, equivalents[i].dir))
       IN vertex.building # "none" /\ vertex.owner # playerIndex

MaxOfSet(S) == CHOOSE x \in S : \A y \in S : y <= x

(* dfs(edgeKey, length) with the visited set of the current branch; the     *)
(* value is the largest length the branch assigns to maxLength              *)
RECURSIVE dfs(_, _, _, _, _)
dfs(g, playerIndex, eKey, length, visited) ==
  LET canonical == getCanonicalEdgeKey(eKey)
  IN IF canonical \in visited THEN 0
     ELSE
       LET visited1 == visited \cup {canonical}
           vertices == getEdgeVertices(eKey[1], eKey[2], eKey[3])
           open == {i \in DOMAIN vertices :
                      ~hasOpponentBuildingAtVertex(g, vertices[i], playerIndex)}
           next == UNION {
                     {adjEdge \in Range(getVertexEdges(vertices[i])) :
                        /\ getCanonicalEdgeKey(adjEdge) \notin visited1
                        /\ hasPlayerRoadAtEdge(g, adjEdge, playerIndex)} : i \in open}
       IN MaxOfSet({length} \cup {dfs(g, playerIndex, adjEdge, length + 1, visited1) : adjEdge \in next})

calculateRoadLength(g, playerIndex) ==
  LET playerEdges == {eKey \in DOMAIN g.edges :
                        g.edges[eKey].road /\ g.edges[eKey].owner = playerIndex}
  IN IF playerEdges = {} THEN 0
     ELSE MaxOfSet({0} \cup {dfs(g, playerIndex, startEdge, 1, {}) : startEdge \in playerEdges})

(* AwardLongestRoad with a holder who keeps the title only when alone in   *)
(* front                                                                   *)
AwardLongestRoadTieVacates(g1, maxLength, holder, playersWithMax) ==
  IF maxLength < 5
  THEN IF holder # Null
       THEN checkWinner([g1 EXCEPT !.players[holder].hasLongestRoad = FALSE,
                                   !.players[holder].victoryPoints = @ - 2,
                                   !.longestRoadPlayer = Null,
                                   !.longestRoadLength = 4])
       ELSE g1
  ELSE IF holder # Null /\ playersWithMax = {holder}
  THEN [g1 EXCEPT !.longestRoadLength = maxLength]
  ELSE IF Cardinality(playersWithMax) = 1
  THEN checkWinner(
         [g1 EXCEPT !.longestRoadPlayer = CHOOSE idx \in playersWithMax : TRUE,
                    !.longestRoadLength = maxLength,
                    !.players = [idx \in DOMAIN g1.players |->
                       IF idx = holder
                       THEN [g1.players[idx] EXCEPT !.hasLongestRoad = FALSE,
                                                    !.victoryPoints = @ - 2]
                       ELSE IF idx \in playersWithMax
                       THEN [g1.players[idx] EXCEPT !.hasLongestRoad = TRUE,
                                                    !.victoryPoints = @ + 2]
                       ELSE g1.players[idx]]])
  ELSE IF Cardinality(playersWithMax) > 1 /\ holder # Null
  THEN checkWinner([g1 EXCEPT !.players[holder].hasLongestRoad = FALSE,
                              !.players[holder].victoryPoints = @ - 2,
                              !.longestRoadPlayer = Null,
                              !.longestRoadLength = maxLength])
  ELSE g1

(* AwardLongestRoad that, below 5, takes the points but leaves the holder  *)
(* recorded                                                                *)
AwardLongestRoadKeepsName(g1, maxLength, holder, playersWithMax) ==
  IF maxLength < 5
  THEN IF holder # Null
       THEN checkWinner([g1 EXCEPT !.players[holder].hasLongestRoad = FALSE,
                                   !.players[holder].victoryPoints = @ - 2,
                                   !.longestRoadLength = 4])
       ELSE g1
  ELSE IF holder # Null /\ g1.players[holder].roadLength = maxLength
  THEN [g1 EXCEPT !.longestRoadLength = maxLength]
  ELSE IF Cardinality(playersWithMax) = 1
  THEN checkWinner(
         [g1 EXCEPT !.longestRoadPlayer = CHOOSE idx \in playersWithMax : TRUE,
                    !.longestRoadLength = maxLength,
                    !.players = [idx \in DOMAIN g1.players |->
                       IF idx = holder
                       THEN [g1.players[idx] EXCEPT !.hasLongestRoad = FALSE,
                                                    !.victoryPoints = @ - 2]
                       ELSE IF idx \in playersWithMax
                       THEN [g1.players[idx] EXCEPT !.hasLongestRoad = TRUE,
                                                    !.victoryPoints = @ + 2]
                       ELSE g1.players[idx]]])
  ELSE IF Cardinality(playersWithMax) > 1 /\ holder # Null
  THEN checkWinner([g1 EXCEPT !.players[holder].hasLongestRoad = FALSE,
                              !.players[holder].victoryPoints = @ - 2,
                              !.longestRoadPlayer = Null,
                              !.longestRoadLength = maxLength])
  ELSE g1

(* the second half of updateLongestRoad: g1 holds the fresh roadLength of   *)
(* every player, maxLength is their maximum                                 *)
AwardLongestRoad(g1, maxLength, holder, playersWithMax) ==
  IF maxLength < 5
  THEN IF holder # Null
       THEN checkWinner([g1 EXCEPT !.players[holder].hasLongestRoad = FALSE,
                                   !.players[holder].victoryPoints = @ - 2,
                                   !.longestRoadPlayer = Null,
                                   !.longestRoadLength = 4])
       ELSE g1
  ELSE IF holder # Null /\ g1.players[holder].roadLength = maxLength
  THEN [g1 EXCEPT !.longestRoadLength = maxLength]
  ELSE IF Cardinality(playersWithMax) = 1
  THEN checkWinner(
         [g1 EXCEPT !.longestRoadPlayer = CHOOSE idx \in playersWithMax : TRUE,
                    !.longestRoadLength = maxLength,
                    !.players = [idx \in DOMAIN g1.players |->
                       IF idx = holder
                       THEN [g1.players[idx] EXCEPT !.hasLongestRoad = FALSE,
                                                    !.victoryPoints = @ - 2]
                       ELSE IF idx \in playersWithMax
                       THEN [g1.players[idx] EXCEPT !.hasLongestRoad = TRUE,
                                                    !.victoryPoints = @ + 2]
                       ELSE g1.players[idx]]])
  ELSE IF Cardinality(playersWithMax) > 1 /\ holder # Null
  THEN checkWinner([g1 EXCEPT !.players[holder].hasLongestRoad = FALSE,
                              !.players[holder].victoryPoints = @ - 2,
                              !.longestRoadPlayer = Null,
                              !.longestRoadLength = maxLength])
  ELSE g1

WithMaxLength(g1, maxLength) ==
  AwardLongestRoad(g1, maxLength, g1.longestRoadPlayer,
                   {idx \in DOMAIN g1.players : g1.players[idx].roadLength = maxLength})

WithRoadLengths(g1) ==
  WithMaxLength(g1, MaxOfSet({g1.players[idx].roadLength : idx \in DOMAIN g1.players}))

updateLongestRoad(g) ==
  WithRoadLengths([g EXCEPT !.players = [idx \in DOMAIN g.players |->
                     [g.players[idx] EXCEPT !.roadLength = calculateRoadLength(g, idx)]]])


updateLargestArmy(g) ==
  LET maxKnights == MaxOfSet({g.players[idx].knightsPlayed : idx \in DOMAIN g.players})
      holder == g.largestArmyPlayer
      playersWithMax == {idx \in DOMAIN g.players : g.players[idx].knightsPlayed = maxKnights}
      currentHolderHasMax == holder # Null /\ g.players[holder].knightsPlayed = maxKnights
      dropHolder(gg) == [gg EXCEPT !.players[holder].hasLargestArmy = FALSE,
                                   !.players[holder].victoryPoints = @ - 2]
  IN IF maxKnights < 3 THEN g
     ELSE IF currentHolderHasMax
     THEN [g EXCEPT !.largestArmySize = maxKnights]
     ELSE IF Cardinality(playersWithMax) = 1
     THEN LET newHolder == CHOOSE idx \in playersWithMax : TRUE
              g2 == IF holder # Null THEN dropHolder(g) ELSE g
          IN checkWinner([g2 EXCEPT !.largestArmyPlayer = newHolder,
                                    !.largestArmySize = maxKnights,
                                    !.players[newHolder].hasLargestArmy = TRUE,
                                    !.players[newHolder].victoryPoints = @ + 2])
     ELSE IF Cardinality(playersWithMax) > 1 /\ holder # Null /\ ~currentHolderHasMax
     THEN checkWinner([dropHolder(g) EXCEPT !.largestArmyPlayer = Null,
                                            !.largestArmySize = maxKnights])
     ELSE g

-----------------------------------------------------------------------------
(* Building placement                                                       *)

Valid == [valid |-> TRUE, error |-> ""]

Invalid(error) == [valid |-> FALSE, error |-> error]

(* canPlaceSettlement without the road check *)
canPlaceSettlementUnconnected(g, playerId, vKey, isSetup) ==
  LET playerIndex == findPlayerIndex(g, playerId)
      player == g.players[playerIndex]
  IN IF playerIndex = Null THEN Invalid("Player not found")
     ELSE IF vKey \notin DOMAIN g.vertices THEN Invalid("Invalid vertex")
     ELSE IF hasBuildingAtVertex(g, vKey) THEN Invalid("Location occupied")
     ELSE IF player.settlements <= 0 THEN Invalid("No settlements left")
     ELSE IF hasAdjacentBuilding(g, vKey) THEN Invalid("Too close to another building")
     ELSE IF ~isSetup
     THEN LET vertexEdges == getVertexEdges(vKey)
              hasRoad == \E i \in DOMAIN vertexEdges :
                           hasPlayerRoadAtEdge(g, vertexEdges[i], playerIndex)
          IN IF FALSE THEN Invalid("Must be connected to your road")
             ELSE IF ~hasResources(player, BUILDING_COSTS.settlement)
             THEN Invalid("Not enough resources")
             ELSE Valid
     ELSE Valid

canPlaceSettlement(g, playerId, vKey, isSetup) ==
  LET playerIndex == findPlayerIndex(g, playerId)
      player == g.players[playerIndex]
  IN IF playerIndex = Null THEN Invalid("Player not found")
     ELSE IF vKey \notin DOMAIN g.vertices THEN Invalid("Invalid vertex")
     ELSE IF hasBuildingAtVertex(g, vKey) THEN Invalid("Location occupied")
     ELSE IF player.settlements <= 0 THEN Invalid("No settlements left")
     ELSE IF hasAdjacentBuilding(g, vKey) THEN Invalid("Too close to another building")
     ELSE IF ~isSetup
     THEN LET vertexEdges == getVertexEdges(vKey)
              hasRoad == \E i \in DOMAIN vertexEdges :
                           hasPlayerRoadAtEdge(g, vertexEdges[i], playerIndex)
          IN IF ~hasRoad THEN Invalid("Must be connected to your road")
             ELSE IF ~hasResources(player, BUILDING_COSTS.settlement)
             THEN Invalid("Not enough resources")
             ELSE Valid
     ELSE Valid

giveInitialResources(g, vKey, playerIndex) ==
  LET adjacentHexes == getAdjacentHexesToVertex(vKey[1], vKey[2], vKey[3])
      gain(res) == Cardinality({i \in DOMAIN adjacentHexes :
                                  /\ adjacentHexes[i] \in DOMAIN g.hexes
                                  /\ g.hexes[adjacentHexes[i]].resource = res})
  IN [g EXCEPT !.players[playerIndex].resources =
        [res \in RESOURCES |-> g.players[playerIndex].resources[res] + gain(res)]]

(* the placement proper, after the validation *)
settle(g, playerIndex, vKey, isSetup) ==
  [g EXCEPT
     !.players[playerIndex] =
        [(IF ~isSetup THEN deductResources(@, BUILDING_COSTS.settlement) ELSE @)
           EXCEPT !.settlements = @ - 1, !.victoryPoints = @ + 1],
     !.vertices[vKey] = [building |-> "settlement", owner |-> playerIndex]]

placed(g, g2, playerIndex, vKey, isSetup) ==
  Ok(checkWinner(IF isSetup /\ g.setupPhase = 1
                 THEN giveInitialResources(g2, vKey, playerIndex)
                 ELSE g2))

validated(g, playerId, vKey, isSetup, validation) ==
  IF ~validation.valid THEN Fail(g, validation.error)
  ELSE placed(g, settle(g, findPlayerIndex(g, playerId), vKey, isSetup),
              findPlayerIndex(g, playerId), vKey, isSetup)

placeSettlement(g, playerId, vKey) ==
  validated(g, playerId, vKey, g.phase = "setup",
            canPlaceSettlement(g, playerId, vKey, g.phase = "setup"))

(* isCurrentEdge: ve names the edge eKey is placed on *)
isCurrentEdge(ve, eKey) ==
  \E eq \in Range(getEquivalentEdges(ve[1], ve[2], ve[3])) :
    eq.q = eKey[1] /\ eq.r = eKey[2] /\ eq.dir = eKey[3]

(* vEdges.some(...): the player has a road on an edge at vKey; the normal   *)
(* placement leaves out the edge being placed                               *)
ownRoadAt(g, playerIndex, eKey, vKey, excludeSelf) ==
  \E ve \in Range(getVertexEdges(vKey)) :
    /\ ~(excludeSelf /\ isCurrentEdge(ve, eKey))
    /\ hasPlayerRoadAtEdge(g, ve, playerIndex)

(* the connectivity check of canPlaceRoad *)
roadConnected(g, playerIndex, eKey, isSetup, lastSettlement) ==
  IF isSetup /\ lastSettlement # <<>>
  THEN \E vKey \in Range(getEdgeVertices(eKey[1], eKey[2], eKey[3])) :
         areVerticesEqual(vKey, lastSettlement)
  ELSE \E vKey \in Range(getEdgeVertices(eKey[1], eKey[2], eKey[3])) :
         \/ hasPlayerBuildingAtVertex(g, vKey, playerIndex)
         \/ ownRoadAt(g, playerIndex, eKey, vKey, ~(g.freeRoads > 0))

(* canPlaceRoad; lastSettlement is <<>> when none is given *)
canPlaceRoad(g, playerId, eKey, isSetup, lastSettlement) ==
  LET playerIndex == findPlayerIndex(g, playerId)
  IN IF playerIndex = Null THEN Invalid("Player not found")
     ELSE IF eKey \notin DOMAIN g.edges THEN Invalid("Invalid edge")
     ELSE IF hasRoadAtEdge(g, eKey) # <<>> THEN Invalid("Road already exists")
     ELSE IF g.players[playerIndex].roads <= 0 THEN Invalid("No roads left")
     ELSE IF ~roadConnected(g, playerIndex, eKey, isSetup, lastSettlement)
     THEN Invalid("Must connect to your building or road")
     ELSE IF ~isSetup /\ g.freeRoads = 0
             /\ ~hasResources(g.players[playerIndex], BUILDING_COSTS.road)
     THEN Invalid("Not enough resources")
     ELSE Valid

placeRoad(g, playerId, eKey, isSetup, lastSettlement) ==
  LET validation == canPlaceRoad(g, playerId, eKey, isSetup, lastSettlement)
  IN IF ~validation.valid THEN Fail(g, validation.error)
     ELSE
       LET playerIndex == findPlayerIndex(g, playerId)
           g1 == IF ~isSetup /\ g.freeRoads = 0
                 THEN [g EXCEPT !.players[playerIndex] =
                         deductResources(g.players[playerIndex], BUILDING_COSTS.road)]
                 ELSE IF g.freeRoads > 0
                 THEN [g EXCEPT !.freeRoads = @ - 1]
                 ELSE g
           g2 == [g1 EXCEPT
                    !.edges[eKey] = [road |-> TRUE, owner |-> playerIndex],
                    !.players[playerIndex].roads = @ - 1]
       IN Ok(updateLongestRoad(g2))

-----------------------------------------------------------------------------
(* Turn management helpers                                                  *)

canPlayerBuildNow(g, playerId) ==
  LET playerIndex == findPlayerIndex(g, playerId)
  IN IF playerIndex = Null THEN FALSE
     ELSE IF g.currentPlayerIndex = playerIndex /\ g.turnPhase = "main" THEN TRUE
     ELSE IF g.specialBuildingPhase /\ g.specialBuildIndex = playerIndex THEN TRUE
     ELSE FALSE

(* upgradeToCity without the check of canPlayerBuildNow *)
upgradeToCityAnyTime(g, playerId, vKey) ==
  LET playerIndex == findPlayerIndex(g, playerId)
      player == g.players[playerIndex]
  IN IF playerIndex = Null THEN Fail(g, "Player not found")
     ELSE IF FALSE THEN Fail(g, "Cannot build now")
     ELSE IF \/ vKey \notin DOMAIN g.vertices
             \/ g.vertices[vKey].building # "settlement"
             \/ g.vertices[vKey].owner # playerIndex
     THEN Fail(g, "No settlement here to upgrade")
     ELSE IF player.cities <= 0 THEN Fail(g, "No cities left")
     ELSE IF ~hasResources(player, BUILDING_COSTS.city) THEN Fail(g, "Not enough resources")
     ELSE
       LET p1 == deductResources(player, BUILDING_COSTS.city)
       IN Ok(checkWinner([g EXCEPT
               !.players[playerIndex] = [p1 EXCEPT !.settlements = @ + 1,
                                                   !.cities = @ - 1,
                                                   !.victoryPoints = @ + 1],
               !.vertices[vKey].building = "city"]))

upgradeToCity(g, playerId, vKey) ==
  LET playerIndex == findPlayerIndex(g, playerId)
      player == g.players[playerIndex]
  IN IF playerIndex = Null THEN Fail(g, "Player not found")
     ELSE IF ~canPlayerBuildNow(g, playerId) THEN Fail(g, "Cannot build now")
     ELSE IF \/ vKey \notin DOMAIN g.vertices
             \/ g.vertices[vKey].building # "settlement"
             \/ g.vertices[vKey].owner # playerIndex
     THEN Fail(g, "No settlement here to upgrade")
     ELSE IF player.cities <= 0 THEN Fail(g, "No cities left")
     ELSE IF ~hasResources(player, BUILDING_COSTS.city) THEN Fail(g, "Not enough resources")
     ELSE
       LET p1 == deductResources(player, BUILDING_COSTS.city)
       IN Ok(checkWinner([g EXCEPT
               !.players[playerIndex] = [p1 EXCEPT !.settlements = @ + 1,
                                                   !.cities = @ - 1,
                                                   !.victoryPoints = @ + 1],
               !.vertices[vKey].building = "city"]))

(* buyDevCard that puts the card with the playable ones *)
buyDevCardPlayableAtOnce(g, playerId) ==
  LET playerIndex == findPlayerIndex(g, playerId)
      player == g.players[playerIndex]
  IN IF playerIndex = Null THEN Fail(g, "Player not found") @@ [card |-> "none"]
     ELSE IF ~canPlayerBuildNow(g, playerId) THEN Fail(g, "Cannot buy now") @@ [card |-> "none"]
     ELSE IF ~hasResources(player, BUILDING_COSTS.developmentCard)
     THEN Fail(g, "Not enough resources") @@ [card |-> "none"]
     ELSE IF Len(g.devCardDeck) = 0
     THEN Fail(g, "No development cards left") @@ [card |-> "none"]
     ELSE
       LET card == g.devCardDeck[Len(g.devCardDeck)]
           p1 == deductResources(player, BUILDING_COSTS.developmentCard)
           g1 == [g EXCEPT
                    !.devCardDeck = SubSeq(g.devCardDeck, 1, Len(g.devCardDeck) - 1),
                    !.players[playerIndex] = [p1 EXCEPT !.developmentCards = Append(@, card)]]
       IN (IF card = "victoryPoint"
           THEN Ok(checkWinner([g1 EXCEPT !.players[playerIndex].hiddenVictoryPoints = @ + 1]))
           ELSE Ok(g1)) @@ [card |-> card]


-----------------------------------------------------------------------------
(* Development cards                                                        *)

buyDevCard(g, playerId) ==
  LET playerIndex == findPlayerIndex(g, playerId)
      player == g.players[playerIndex]
  IN IF playerIndex = Null THEN Fail(g, "Player not found") @@ [card |-> "none"]
     ELSE IF ~canPlayerBuildNow(g, playerId) THEN Fail(g, "Cannot buy now") @@ [card |-> "none"]
     ELSE IF ~hasResources(player, BUILDING_COSTS.developmentCard)
     THEN Fail(g, "Not enough resources") @@ [card |-> "none"]
     ELSE IF Len(g.devCardDeck) = 0
     THEN Fail(g, "No development cards left") @@ [card |-> "none"]
     ELSE
       LET card == g.devCardDeck[Len(g.devCardDeck)]
           p1 == deductResources(player, BUILDING_COSTS.developmentCard)
           g1 == [g EXCEPT
                    !.devCardDeck = SubSeq(g.devCardDeck, 1, Len(g.devCardDeck) - 1),
                    !.players[playerIndex] = [p1 EXCEPT !.newDevCards = Append(@, card)]]
       IN (IF card = "victoryPoint"
           THEN Ok(checkWinner([g1 EXCEPT !.players[playerIndex].hiddenVictoryPoints = @ + 1]))
           ELSE Ok(g1)) @@ [card |-> card]

(* playDevCard whose monopoly credits the cards of the next player only *)
playDevCardOneVictim(g, playerId, cardType, resource) ==
  LET playerIndex == findPlayerIndex(g, playerId)
      player == g.players[playerIndex]
      cardIndex == indexOf(player.developmentCards, cardType)
  IN IF playerIndex = Null THEN Fail(g, "Player not found")
     ELSE IF g.currentPlayerIndex # playerIndex THEN Fail(g, "Not your turn")
     ELSE IF g.devCardPlayedThisTurn
     THEN Fail(g, "You can only play one development card per turn")
     ELSE IF cardIndex = Null THEN Fail(g, "You do not have this card")
     ELSE
       LET g1 == [g EXCEPT !.players[playerIndex].developmentCards = RemoveAt(@, cardIndex)]
           played(gg) == Ok([gg EXCEPT !.devCardPlayedThisTurn = TRUE])
       IN CASE cardType = "knight" ->
                 played(updateLargestArmy(
                   [g1 EXCEPT !.players[playerIndex].knightsPlayed = @ + 1,
                              !.turnPhase = "robber"]))
            [] cardType = "roadBuilding" ->
                 played([g1 EXCEPT !.freeRoads = Min2(2, player.roads)])
            [] cardType = "yearOfPlenty" ->
                 played([g1 EXCEPT !.yearOfPlentyPicks = 2])
            [] cardType = "monopoly" ->
                 IF resource = "none" THEN Fail(g1, "Must specify a resource")
                 ELSE LET totalStolen == SumSeq([i \in 1..Length(g1.players) |->
                                            IF i - 1 = (playerIndex + 1) % Length(g1.players)
                                            THEN g1.players[i - 1].resources[resource]
                                            ELSE 0])
                      IN played([g1 EXCEPT !.players =
                            [idx \in DOMAIN g1.players |->
                               [g1.players[idx] EXCEPT !.resources[resource] =
                                  IF idx # playerIndex THEN 0 ELSE @ + totalStolen]]])
            [] cardType = "victoryPoint" ->
                 Fail(g1, "Victory point cards cannot be played")
            [] OTHER -> played(g1)


(* playDevCard; resource is params.resource, "none" when it is not given *)
playDevCard(g, playerId, cardType, resource) ==
  LET playerIndex == findPlayerIndex(g, playerId)
      player == g.players[playerIndex]
      cardIndex == indexOf(player.developmentCards, cardType)
  IN IF playerIndex = Null THEN Fail(g, "Player not found")
     ELSE IF g.currentPlayerIndex # playerIndex THEN Fail(g, "Not your turn")
     ELSE IF g.devCardPlayedThisTurn
     THEN Fail(g, "You can only play one development card per turn")
     ELSE IF cardIndex = Null THEN Fail(g, "You do not have this card")
     ELSE
       LET g1 == [g EXCEPT !.players[playerIndex].developmentCards = RemoveAt(@, cardIndex)]
           played(gg) == Ok([gg EXCEPT !.devCardPlayedThisTurn = TRUE])
       IN CASE cardType = "knight" ->
                 played(updateLargestArmy(
                   [g1 EXCEPT !.players[playerIndex].knightsPlayed = @ + 1,
                              !.turnPhase = "robber"]))
            [] cardType = "roadBuilding" ->
                 played([g1 EXCEPT !.freeRoads = Min2(2, player.roads)])
            [] cardType = "yearOfPlenty" ->
                 played([g1 EXCEPT !.yearOfPlentyPicks = 2])
            [] cardType = "monopoly" ->
                 IF resource = "none" THEN Fail(g1, "Must specify a resource")
                 ELSE LET totalStolen == SumSeq([i \in 1..Length(g1.players) |->
                                            IF i - 1 # playerIndex
                                            THEN g1.players[i - 1].resources[resource]
                                            ELSE 0])
                      IN played([g1 EXCEPT !.players =
                            [idx \in DOMAIN g1.players |->
                               [g1.players[idx] EXCEPT !.resources[resource] =
                                  IF idx # playerIndex THEN 0 ELSE @ + totalStolen]]])
            [] cardType = "victoryPoint" ->
                 Fail(g1, "Victory point cards cannot be played")
            [] OTHER -> played(g1)

yearOfPlentyPick(g, playerId, resource) ==
  LET playerIndex == findPlayerIndex(g, playerId)
  IN IF playerIndex = Null THEN Fail(g, "Player not found")
     ELSE IF g.currentPlayerIndex # playerIndex THEN Fail(g, "Not your turn")
     ELSE IF g.yearOfPlentyPicks <= 0 THEN Fail(g, "No year of plenty picks remaining")
     ELSE Ok([g EXCEPT !.players[playerIndex].resources[resource] = @ + 1,
                       !.yearOfPlentyPicks = @ - 1])

-----------------------------------------------------------------------------
(* Trading                                                                  *)

getPlayerPorts(g, playerIndex) ==
  LET hasAccess(port) ==
        \E k \in DOMAIN port.vertices :
          LET vKey == port.vertices[k]
              equivalents == getEquivalentVertices(vKey[1], vKey[2], vKey[3])
          IN \E i \in DOMAIN equivalents :
               LET vertex == VertexAt(g, vertexKey(equivalents[i].q, equivalents[i].r,
                                                   equivalents[i].dir))
               IN vertex.building # "none" /\ vertex.owner = playerIndex
  IN SelectSeq(g.ports, hasAccess)

getTradeRatio(g, playerIndex, resource) ==
  LET ports == getPlayerPorts(g, playerIndex)
  IN IF \E i \in DOMAIN ports : ports[i].resource = resource THEN 2
     ELSE IF \E i \in DOMAIN ports : ports[i].resource = "none" THEN 3
     ELSE 4

bankTrade(g, playerId, giveResource, giveAmount, getResource) ==
  LET playerIndex == findPlayerIndex(g, playerId)
      player == g.players[playerIndex]
      requiredRatio == getTradeRatio(g, playerIndex, giveResource)
  IN IF playerIndex = Null THEN Fail(g, "Player not found")
     ELSE IF g.currentPlayerIndex # playerIndex THEN Fail(g, "Not your turn")
     ELSE IF g.turnPhase # "main" THEN Fail(g, "Cannot trade now")
     ELSE IF giveAmount # requiredRatio THEN Fail(g, "Trade requires the port ratio")
     ELSE IF player.resources[giveResource] < giveAmount THEN Fail(g, "Not enough resources")
     ELSE LET p1 == [player EXCEPT !.resources[giveResource] = @ - giveAmount]
          IN Ok([g EXCEPT !.players[playerIndex] =
                   [p1 EXCEPT !.resources[getResource] = @ + 1]])

(* proposeTrade; offer and request map every resource to an amount;         *)
(* responses is the set of player ids that answered 'decline'               *)
proposeTrade(g, playerId, offer, request) ==
  LET playerIndex == findPlayerIndex(g, playerId)
      player == g.players[playerIndex]
  IN IF playerIndex = Null THEN Fail(g, "Player not found")
     ELSE IF g.currentPlayerIndex # playerIndex THEN Fail(g, "Not your turn")
     ELSE IF g.turnPhase # "main" THEN Fail(g, "Cannot trade now")
     ELSE IF \E res \in RESOURCES : player.resources[res] < offer[res]
     THEN Fail(g, "Not enough resources")
     ELSE Ok([g EXCEPT !.tradeOffer =
                <<[from |-> playerIndex, offer |-> offer, request |-> request,
                   responses |-> {}]>>])

respondToTrade(g, playerId, accept) ==
  LET playerIndex == findPlayerIndex(g, playerId)
      player == g.players[playerIndex]
      trade == g.tradeOffer[1]
  IN IF g.tradeOffer = <<>> THEN Fail(g, "No trade offer") @@ [traded |-> FALSE]
     ELSE IF playerIndex = Null THEN Fail(g, "Player not found") @@ [traded |-> FALSE]
     ELSE IF playerIndex = trade.from
     THEN Fail(g, "Cannot respond to your own trade") @@ [traded |-> FALSE]
     ELSE IF accept
     THEN IF \E res \in RESOURCES : player.resources[res] < trade.request[res]
          THEN Fail(g, "Not enough resources") @@ [traded |-> FALSE]
          ELSE Ok([g EXCEPT
                     !.players = [i \in DOMAIN g.players |->
                        [g.players[i] EXCEPT !.resources = [res \in RESOURCES |->
                           g.players[i].resources[res]
                             + (IF i = trade.from THEN trade.request[res] - trade.offer[res] ELSE 0)
                             + (IF i = playerIndex THEN trade.offer[res] - trade.request[res] ELSE 0)]]],
                     !.tradeOffer = <<>>]) @@ [traded |-> TRUE]
     ELSE
       LET responses == trade.responses \cup {playerId}
           allDeclined == \A i \in DOMAIN g.players :
                            i # trade.from => g.players[i].id \in responses
       IN Ok([g EXCEPT !.tradeOffer =
                IF allDeclined THEN <<>> ELSE <<[trade EXCEPT !.responses = responses]>>])
          @@ [traded |-> FALSE]

cancelTrade(g, playerId) ==
  IF g.tradeOffer = <<>> THEN Fail(g, "No trade offer")
  ELSE IF findPlayerIndex(g, playerId) # g.tradeOffer[1].from
  THEN Fail(g, "Only the offerer can cancel")
  ELSE Ok([g EXCEPT !.tradeOffer = <<>>])

-----------------------------------------------------------------------------
(* Turn management                                                          *)

(* endTurn that leaves the pending trade offer open *)
endTurnKeepsOffer(g, playerId) ==
  LET playerIndex == findPlayerIndex(g, playerId)
      player == g.players[playerIndex]
      n == Length(g.players)
      g1 == [g EXCEPT
               !.players[playerIndex] =
                  [player EXCEPT !.developmentCards = @ \o player.newDevCards,
                                 !.newDevCards = <<>>],
               !.freeRoads = 0,
               !.yearOfPlentyPicks = 0,
               !.devCardPlayedThisTurn = FALSE,
               !.hasRolledThisTurn = FALSE]
      first == (playerIndex + 1) % n
  IN IF g.currentPlayerIndex # playerIndex
     THEN Fail(g, "Not your turn") @@ [specialBuildingPhase |-> FALSE]
     ELSE IF g.phase = "setup"
     THEN Fail(g, "Complete setup first") @@ [specialBuildingPhase |-> FALSE]
     ELSE IF g.turnPhase # "main"
     THEN Fail(g, "Cannot end turn now") @@ [specialBuildingPhase |-> FALSE]
     ELSE IF g.isExtended /\ n > 4 /\ g.enableSpecialBuild
     THEN Ok([g1 EXCEPT
                !.specialBuildingPhase = TRUE,
                !.specialBuildIndex = IF first = playerIndex THEN (first + 1) % n ELSE first,
                !.turnPhase = "specialBuild"]) @@ [specialBuildingPhase |-> TRUE]
     ELSE Ok([g1 EXCEPT
                !.currentPlayerIndex = (g.currentPlayerIndex + 1) % n,
                !.turnPhase = "roll",
                !.diceRoll = NoDice]) @@ [specialBuildingPhase |-> FALSE]

endTurn(g, playerId) ==
  LET playerIndex == findPlayerIndex(g, playerId)
      player == g.players[playerIndex]
      n == Length(g.players)
      g1 == [g EXCEPT
               !.players[playerIndex] =
                  [player EXCEPT !.developmentCards = @ \o player.newDevCards,
                                 !.newDevCards = <<>>],
               !.tradeOffer = <<>>,
               !.freeRoads = 0,
               !.yearOfPlentyPicks = 0,
               !.devCardPlayedThisTurn = FALSE,
               !.hasRolledThisTurn = FALSE]
      first == (playerIndex + 1) % n
  IN IF g.currentPlayerIndex # playerIndex
     THEN Fail(g, "Not your turn") @@ [specialBuildingPhase |-> FALSE]
     ELSE IF g.phase = "setup"
     THEN Fail(g, "Complete setup first") @@ [specialBuildingPhase |-> FALSE]
     ELSE IF g.turnPhase # "main"
     THEN Fail(g, "Cannot end turn now") @@ [specialBuildingPhase |-> FALSE]
     ELSE IF g.isExtended /\ n > 4 /\ g.enableSpecialBuild
     THEN Ok([g1 EXCEPT
                !.specialBuildingPhase = TRUE,
                !.specialBuildIndex = IF first = playerIndex THEN (first + 1) % n ELSE first,
                !.turnPhase = "specialBuild"]) @@ [specialBuildingPhase |-> TRUE]
     ELSE Ok([g1 EXCEPT
                !.currentPlayerIndex = (g.currentPlayerIndex + 1) % n,
                !.turnPhase = "roll",
                !.diceRoll = NoDice]) @@ [specialBuildingPhase |-> FALSE]

endSpecialBuild(g, playerId) ==
  LET playerIndex == findPlayerIndex(g, playerId)
      currentTurnPlayer == g.currentPlayerIndex
      n == Length(g.players)
      nextIndex == (playerIndex + 1) % n
  IN IF ~g.specialBuildingPhase
     THEN Fail(g, "Not in special building phase") @@ [specialBuildingPhaseEnded |-> FALSE]
     ELSE IF g.specialBuildIndex # playerIndex
     THEN Fail(g, "Not your turn to special build") @@ [specialBuildingPhaseEnded |-> FALSE]
     ELSE IF nextIndex = currentTurnPlayer
     THEN Ok([g EXCEPT
                !.specialBuildingPhase = FALSE,
                !.specialBuildIndex = 0,
                !.currentPlayerIndex = (currentTurnPlayer + 1) % n,
                !.turnPhase = "roll",
                !.diceRoll = NoDice,
                !.hasRolledThisTurn = FALSE]) @@ [specialBuildingPhaseEnded |-> TRUE]
     ELSE Ok([g EXCEPT !.specialBuildIndex = nextIndex])
          @@ [specialBuildingPhaseEnded |-> FALSE]

canSpecialBuild(g, playerId) ==
  g.specialBuildingPhase /\ g.specialBuildIndex = findPlayerIndex(g, playerId)

(* advanceSetup that ends the setup without resetting the fine phase *)
advanceSetupKeepsTurnPhase(g, playerId) ==
  LET numPlayers == Length(g.players)
  IN IF g.players[g.currentPlayerIndex].id # playerId THEN Fail(g, "Not your turn")
     ELSE IF g.phase # "setup" THEN Fail(g, "Not in setup phase")
     ELSE IF g.setupPhase = 0
     THEN IF g.currentPlayerIndex < numPlayers - 1
          THEN Ok([g EXCEPT !.currentPlayerIndex = @ + 1])
          ELSE Ok([g EXCEPT !.setupPhase = 1])
     ELSE IF g.currentPlayerIndex > 0
          THEN Ok([g EXCEPT !.currentPlayerIndex = @ - 1])
          ELSE Ok([g EXCEPT !.phase = "playing"])

advanceSetup(g, playerId) ==
  LET numPlayers == Length(g.players)
  IN IF g.players[g.currentPlayerIndex].id # playerId THEN Fail(g, "Not your turn")
     ELSE IF g.phase # "setup" THEN Fail(g, "Not in setup phase")
     ELSE IF g.setupPhase = 0
     THEN IF g.currentPlayerIndex < numPlayers - 1
          THEN Ok([g EXCEPT !.currentPlayerIndex = @ + 1])
          ELSE Ok([g EXCEPT !.setupPhase = 1])
     ELSE IF g.currentPlayerIndex > 0
          THEN Ok([g EXCEPT !.currentPlayerIndex = @ - 1])
          ELSE Ok([g EXCEPT !.phase = "playing", !.turnPhase = "roll"])

-----------------------------------------------------------------------------------------------------------------------------------------------------
(* Bounds of the exploration                                                *)

(* from each state of the recorded game, every operation is explored for    *)
(* MaxCalls further calls                                                   *)
MaxCalls == 2

(* a successful call is explored only while every hand holds at most        *)
(* MaxHand cards                                                            *)
MaxHand == 10

(* the draws of the robber's steal: u % (number of held resource types)     *)
MaxDraw == 1

(* startGame draws every order of at most MaxShuffled players *)
MaxShuffled == 3

-----------------------------------------------------------------------------
(* Inputs of the exploration                                                *)

HostId == 1

(* uuidv4() of the joinGame handler: an id no player of the game has; ids   *)
(* are handed out in the order of joining                                   *)
FreshId(g) == Cardinality(DOMAIN g.players) + 1

(* callers: the host, the first joiner and the id of the second joiner,     *)
(* which in a two-player game is the id of nobody                           *)
CallerIds == {1, 2, 3}

IsShuffleOf(s, t) ==
  /\ Len(s) = Len(t)
  /\ \A x \in Range(t) : Cardinality({i \in DOMAIN s : s[i] = x})
                           = Cardinality({i \in DOMAIN t : t[i] = x})

(* one outcome of shuffle(TERRAIN_DISTRIBUTION), shuffle(NUMBER_TOKENS):    *)
(* ore (6) and grain (6) and wool (8) around the top corner of hex 0,0;     *)
(* brick (8) and lumber (10) and the same wool around its bottom corner;    *)
(* the desert on hex 0,2                                                    *)
LayoutTerrain ==
  <<"hills", "forest", "pasture", "fields", "mountains", "fields", "mountains",
    "hills", "forest", "pasture", "pasture", "fields", "mountains", "hills",
    "forest", "forest", "pasture", "fields", "desert">>

LayoutNumbers == <<2, 3, 3, 4, 6, 6, 4, 5, 5, 8, 9, 9, 10, 8, 10, 11, 11, 12>>

(* one outcome of shuffle(DEV_CARD_DISTRIBUTION); pop() draws from the end: *)
(* a knight, then a monopoly, then a victory point                          *)
LayoutDeck ==
  Rep(13, "knight") \o Rep(4, "victoryPoint") \o Rep(2, "roadBuilding")
    \o Rep(2, "yearOfPlenty") \o <<"monopoly", "victoryPoint", "monopoly", "knight">>

(* one outcome of the two shuffles of the extended board: the reversals *)
LayoutTerrainExtended ==
  [i \in 1..Len(TERRAIN_DISTRIBUTION_EXTENDED) |->
     TERRAIN_DISTRIBUTION_EXTENDED[Len(TERRAIN_DISTRIBUTION_EXTENDED) + 1 - i]]

LayoutNumbersExtended ==
  [i \in 1..Len(NUMBER_TOKENS_EXTENDED) |->
     NUMBER_TOKENS_EXTENDED[Len(NUMBER_TOKENS_EXTENDED) + 1 - i]]

(* the outcomes of the in-place shuffle of startGame: every permutation of  *)
(* up to MaxShuffled players, the identity and the reversal of more         *)
PlayerOrders(g) ==
  IF Cardinality(DOMAIN g.players) <= MaxShuffled
  THEN {f \in [DOMAIN g.players -> DOMAIN g.players] :
          \A i, j \in DOMAIN g.players : f[i] = f[j] => i = j}
  ELSE {[i \in DOMAIN g.players |-> i],
        [i \in DOMAIN g.players |-> Cardinality(DOMAIN g.players) - 1 - i]}

(* the top corner of hex 0,0 under two of its keys, and the bottom corner *)
VerticesIn == {<<0, 0, 0>>, <<0, -1, 2>>, <<0, 0, 3>>}

(* the edges of hex 0,0 that leave those corners clockwise *)
EdgesIn == {<<0, 0, 0>>, <<0, 0, 3>>}

(* lastSettlement: not given (<<>>), or a vertex key *)
LastSettlementsIn == {<<>>, <<0, 0, 0>>}

(* the ore hex, the desert, and a key that is not on the board *)
HexesIn == {<<0, -1>>, <<0, 2>>, <<9, 9>>}

(* totals 6, 8 and 7 *)
DiceIn == {<<2, 4>>, <<4, 4>>, <<3, 4>>}

DiscardsIn ==
  {[NoResources EXCEPT !.ore = 2, !.grain = 2],
   [NoResources EXCEPT !.wool = 2, !.brick = 2],
   [NoResources EXCEPT !.wool = 4],
   [NoResources EXCEPT !.ore = 1]}

OffersIn == {[NoResources EXCEPT !.ore = 2]}

RequestsIn == {NoResources, [NoResources EXCEPT !.brick = 1]}

CardsIn == {"knight", "monopoly", "victoryPoint"}

MonopolyIn == {"none", "wool"}

PicksIn == {"brick"}

BankGiveIn == {"ore"}

BankAmountsIn == {2, 4}

BankGetIn == {"lumber"}

-----------------------------------------------------------------------------
(* A recorded game                                                          *)

Call(op, id, args) == [op |-> op, id |-> id, args |-> args]

(* the engine call a record stands for *)
Apply(g, c) ==
  CASE c.op = "addPlayer" -> addPlayer(g, c.id)
    [] c.op = "startGame" -> startGame(g, c.args[1])
    [] c.op = "shuffleBoard" -> shuffleBoard(g, c.args[1], c.args[2])
    [] c.op = "rollDice" -> rollDice(g, c.id, c.args[1], c.args[2])
    [] c.op = "discardCards" -> discardCards(g, c.id, c.args[1])
    [] c.op = "moveRobber" -> moveRobber(g, c.id, c.args[1], c.args[2], c.args[3])
    [] c.op = "placeSettlement" -> placeSettlement(g, c.id, c.args[1])
    [] c.op = "placeRoad" -> placeRoad(g, c.id, c.args[1], c.args[2], c.args[3])
    [] c.op = "upgradeToCity" -> upgradeToCity(g, c.id, c.args[1])
    [] c.op = "buyDevCard" -> buyDevCard(g, c.id)
    [] c.op = "playDevCard" -> playDevCard(g, c.id, c.args[1], c.args[2])
    [] c.op = "yearOfPlentyPick" -> yearOfPlentyPick(g, c.id, c.args[1])
    [] c.op = "bankTrade" -> bankTrade(g, c.id, c.args[1], c.args[2], c.args[3])
    [] c.op = "proposeTrade" -> proposeTrade(g, c.id, c.args[1], c.args[2])
    [] c.op = "respondToTrade" -> respondToTrade(g, c.id, c.args[1])
    [] c.op = "cancelTrade" -> cancelTrade(g, c.id)
    [] c.op = "endTurn" -> endTurn(g, c.id)
    [] c.op = "endSpecialBuild" -> endSpecialBuild(g, c.id)
    [] c.op = "advanceSetup" -> advanceSetup(g, c.id)

(* A two-player game from the lobby on.  Setup: each player settles a port  *)
(* corner first and a corner of hex 0,0 second.  Play: player 1 buys a      *)
(* knight and a monopoly, both hands grow on 6 and 8, a 7 obliges both      *)
(* players to discard, and player 1 answers with the knight.                *)
RecordedGame ==
  << Call("addPlayer", 2, <<>>),
     Call("startGame", 1, << [i \in 0..1 |-> i] >>),
     Call("placeSettlement", 1, << <<2, -2, 1>> >>),
     Call("placeRoad", 1, << <<2, -2, 1>>, TRUE, <<2, -2, 1>> >>),
     Call("advanceSetup", 1, <<>>),
     Call("placeSettlement", 2, << <<-2, 2, 4>> >>),
     Call("placeRoad", 2, << <<-2, 2, 4>>, TRUE, <<-2, 2, 4>> >>),
     Call("advanceSetup", 2, <<>>),
     Call("placeSettlement", 2, << <<0, 0, 3>> >>),
     Call("placeRoad", 2, << <<0, 0, 3>>, TRUE, <<0, 0, 3>> >>),
     Call("advanceSetup", 2, <<>>),
     Call("placeSettlement", 1, << <<0, 0, 0>> >>),
     Call("placeRoad", 1, << <<0, 0, 0>>, TRUE, <<0, 0, 0>> >>),
     Call("advanceSetup", 1, <<>>),
     Call("rollDice", 1, <<2, 4>>),
     Call("proposeTrade", 1, <<[NoResources EXCEPT !.ore = 2], NoResources>>),
     Call("buyDevCard", 1, <<>>),
     Call("endTurn", 1, <<>>),
     Call("rollDice", 2, <<4, 4>>),
     Call("endTurn", 2, <<>>),
     Call("rollDice", 1, <<2, 4>>),
     Call("buyDevCard", 1, <<>>),
     Call("endTurn", 1, <<>>),
     Call("rollDice", 2, <<4, 4>>),
     Call("endTurn", 2, <<>>),
     Call("rollDice", 1, <<2, 4>>),
     Call("endTurn", 1, <<>>),
     Call("rollDice", 2, <<4, 4>>),
     Call("endTurn", 2, <<>>),
     Call("rollDice", 1, <<2, 4>>),
     Call("endTurn", 1, <<>>),
     Call("rollDice", 2, <<1, 1>>),
     Call("endTurn", 2, <<>>),
     Call("rollDice", 1, <<3, 4>>),
     Call("playDevCard", 1, <<"knight", "none">>),
     Call("moveRobber", 1, << <<0, -1>>, 2, 0 >>),
     Call("discardCards", 2, <<[NoResources EXCEPT !.wool = 2, !.brick = 2]>>),
     Call("upgradeToCity", 1, << <<0, 0, 0>> >>),
     Call("endTurn", 1, <<>>) >>

(* the results of the calls lo..hi of a script played from game g on *)
RECURSIVE Run(_, _, _, _)
Joined(script, left, mid, hi) ==
  left \o Run(script, left[Len(left)].g, mid + 1, hi)

Run(script, g, lo, hi) ==
  IF lo > hi THEN <<>>
  ELSE IF lo = hi THEN <<Apply(g, script[lo])>>
  ELSE Joined(script, Run(script, g, lo, (lo + hi) \div 2), (lo + hi) \div 2, hi)

(* the games of a recorded game after 0, 1, ... calls, and whether every    *)
(* call succeeded                                                           *)
Replayed(start, results) ==
  [games |-> <<start>> \o [i \in DOMAIN results |-> results[i].g],
   ok |-> \A i \in DOMAIN results : results[i].success]

Replay(script, start) == Replayed(start, Run(script, start, 1, Len(script)))

Recorded ==
  Replay(RecordedGame,
         createGame(HostId, FALSE, FALSE, LayoutTerrain, LayoutNumbers, LayoutDeck))

(* A five-player game on the extended board with the special-building rule: *)
(* the board as created when both shuffles return their argument, every     *)
(* player settles the top corners of two hexes of the middle rows, player 1 *)
(* takes its turn, the special-building slot goes round players 2 to 5, and *)
(* player 2 takes its turn: it collects wool, changes it for ore at the     *)
(* bank and hands player 3 the price of a city, which player 3 builds in    *)
(* its special-building slot.                                               *)
RecordedGameExtended ==
  << Call("addPlayer", 2, <<>>),
     Call("addPlayer", 3, <<>>),
     Call("addPlayer", 4, <<>>),
     Call("addPlayer", 5, <<>>),
     Call("startGame", 1, << [i \in 0..4 |-> i] >>),
     Call("placeSettlement", 1, << <<0, 0, 0>> >>),
     Call("placeRoad", 1, << <<0, 0, 0>>, TRUE, <<0, 0, 0>> >>),
     Call("advanceSetup", 1, <<>>),
     Call("placeSettlement", 2, << <<1, 0, 0>> >>),
     Call("placeRoad", 2, << <<1, 0, 0>>, TRUE, <<1, 0, 0>> >>),
     Call("advanceSetup", 2, <<>>),
     Call("placeSettlement", 3, << <<-1, 0, 0>> >>),
     Call("placeRoad", 3, << <<-1, 0, 0>>, TRUE, <<-1, 0, 0>> >>),
     Call("advanceSetup", 3, <<>>),
     Call("placeSettlement", 4, << <<-2, 0, 0>> >>),
     Call("placeRoad", 4, << <<-2, 0, 0>>, TRUE, <<-2, 0, 0>> >>),
     Call("advanceSetup", 4, <<>>),
     Call("placeSettlement", 5, << <<2, 0, 0>> >>),
     Call("placeRoad", 5, << <<2, 0, 0>>, TRUE, <<2, 0, 0>> >>),
     Call("advanceSetup", 5, <<>>),
     Call("placeSettlement", 5, << <<-3, 1, 0>> >>),
     Call("placeRoad", 5, << <<-3, 1, 0>>, TRUE, <<-3, 1, 0>> >>),
     Call("advanceSetup", 5, <<>>),
     Call("placeSettlement", 4, << <<-2, 1, 0>> >>),
     Call("placeRoad", 4, << <<-2, 1, 0>>, TRUE, <<-2, 1, 0>> >>),
     Call("advanceSetup", 4, <<>>),
     Call("placeSettlement", 3, << <<-1, 1, 0>> >>),
     Call("placeRoad", 3, << <<-1, 1, 0>>, TRUE, <<-1, 1, 0>> >>),
     Call("advanceSetup", 3, <<>>),
     Call("placeSettlement", 2, << <<1, 1, 0>> >>),
     Call("placeRoad", 2, << <<1, 1, 0>>, TRUE, <<1, 1, 0>> >>),
     Call("advanceSetup", 2, <<>>),
     Call("placeSettlement", 1, << <<0, 1, 0>> >>),
     Call("placeRoad", 1, << <<0, 1, 0>>, TRUE, <<0, 1, 0>> >>),
     Call("advanceSetup", 1, <<>>),
     Call("rollDice", 1, <<2, 4>>),
     Call("endTurn", 1, <<>>),
     Call("endSpecialBuild", 2, <<>>),
     Call("endSpecialBuild", 3, <<>>),
     Call("endSpecialBuild", 4, <<>>),
     Call("endSpecialBuild", 5, <<>>),
     Call("rollDice", 2, <<4, 4>>),
     Call("proposeTrade", 2, <<NoResources, [NoResources EXCEPT !.wool = 5]>>),
     Call("respondToTrade", 1, <<TRUE>>),
     Call("proposeTrade", 2, <<NoResources, [NoResources EXCEPT !.wool = 5]>>),
     Call("respondToTrade", 4, <<TRUE>>),
     Call("bankTrade", 2, <<"wool", 4, "ore">>),
     Call("bankTrade", 2, <<"wool", 4, "ore">>),
     Call("bankTrade", 2, <<"wool", 4, "ore">>),
     Call("proposeTrade", 2, <<[NoResources EXCEPT !.ore = 3, !.grain = 1], NoResources>>),
     Call("respondToTrade", 3, <<TRUE>>),
     Call("endTurn", 2, <<>>),
     Call("upgradeToCity", 3, << <<-1, 0, 0>> >>) >>

RecordedExtended ==
  Replay(RecordedGameExtended,
         createGame(HostId, TRUE, TRUE, TERRAIN_DISTRIBUTION_EXTENDED,
                      NUMBER_TOKENS_EXTENDED, LayoutDeck))

(* another outcome of shuffle(DEV_CARD_DISTRIBUTION): the five victory      *)
(* points are drawn first                                                   *)
LayoutDeckEndgame ==
  Rep(14, "knight") \o Rep(2, "roadBuilding") \o Rep(2, "yearOfPlenty")
    \o Rep(2, "monopoly") \o Rep(5, "victoryPoint")

(* A two-player game played to its end after the setup of RecordedGame.     *)
(* Player 1 turns the settlement on hex 0,0 into a city, buys the five      *)
(* victory points as the 6s and 8s pay, takes brick and lumber from player  *)
(* 2, lays a road from each of its setup roads and settles the end of the   *)
(* first: 4 visible and 5 hidden victory points.  The settlement at the end *)
(* of the second road then wins the game.                                   *)
RecordedGameEndgame ==
  SubSeq(RecordedGame, 1, 14) \o
  << Call("rollDice", 1, <<2, 4>>),
     Call("endTurn", 1, <<>>),
     Call("rollDice", 2, <<2, 4>>),
     Call("endTurn", 2, <<>>),
     Call("rollDice", 1, <<2, 4>>),
     Call("upgradeToCity", 1, << <<0, 0, 0>> >>),
     Call("endTurn", 1, <<>>),
     Call("rollDice", 2, <<2, 4>>),
     Call("endTurn", 2, <<>>),
     Call("rollDice", 1, <<2, 4>>),
     Call("buyDevCard", 1, <<>>),
     Call("endTurn", 1, <<>>),
     Call("rollDice", 2, <<4, 4>>),
     Call("endTurn", 2, <<>>),
     Call("rollDice", 1, <<4, 4>>),
     Call("buyDevCard", 1, <<>>),
     Call("buyDevCard", 1, <<>>),
     Call("endTurn", 1, <<>>),
     Call("rollDice", 2, <<4, 4>>),
     Call("endTurn", 2, <<>>),
     Call("rollDice", 1, <<2, 4>>),
     Call("buyDevCard", 1, <<>>),
     Call("buyDevCard", 1, <<>>),
     Call("endTurn", 1, <<>>),
     Call("rollDice", 2, <<2, 4>>),
     Call("endTurn", 2, <<>>),
     Call("rollDice", 1, <<4, 6>>),
     Call("endTurn", 1, <<>>),
     Call("rollDice", 2, <<4, 6>>),
     Call("endTurn", 2, <<>>),
     Call("rollDice", 1, <<4, 6>>),
     Call("proposeTrade", 1, <<[NoResources EXCEPT !.ore = 1, !.grain = 1],
                               [NoResources EXCEPT !.brick = 4, !.lumber = 4]>>),
     Call("respondToTrade", 2, <<TRUE>>),
     Call("placeRoad", 1, << <<1, -1, 2>>, FALSE, <<>> >>),
     Call("placeRoad", 1, << <<2, -1, 0>>, FALSE, <<>> >>),
     Call("placeSettlement", 1, << <<1, -1, 2>> >>),
     Call("placeSettlement", 1, << <<2, -1, 1>> >>) >>

RecordedEndgame ==
  Replay(RecordedGameEndgame,
         createGame(HostId, FALSE, FALSE, LayoutTerrain, LayoutNumbers,
                      LayoutDeckEndgame))

(* A two-player game about the longest road.  Player 1 settles a corner of  *)
(* the brick and lumber hexes with token 5 and the top corner of hex 0,0,   *)
(* player 2 the bottom corner of hex 0,0 and the coast corner 2,-1,1.  The  *)
(* 5s pay player 1 a road each: it extends its road from the top corner     *)
(* round hex 1,-1 to five edges and takes the title.  Player 2 lays one     *)
(* road and settles the middle corner of that road, 1,-1,1; player 1 then   *)
(* lays one more road.                                                      *)
RecordedGameRoads ==
  << Call("addPlayer", 2, <<>>),
     Call("startGame", 1, << [i \in 0..1 |-> i] >>),
     Call("placeSettlement", 1, << <<-1, 0, 4>> >>),
     Call("placeRoad", 1, << <<-1, 0, 4>>, TRUE, <<-1, 0, 4>> >>),
     Call("advanceSetup", 1, <<>>),
     Call("placeSettlement", 2, << <<0, 0, 3>> >>),
     Call("placeRoad", 2, << <<0, 0, 3>>, TRUE, <<0, 0, 3>> >>),
     Call("advanceSetup", 2, <<>>),
     Call("placeSettlement", 2, << <<2, -1, 1>> >>),
     Call("placeRoad", 2, << <<2, -1, 0>>, TRUE, <<2, -1, 1>> >>),
     Call("advanceSetup", 2, <<>>),
     Call("placeSettlement", 1, << <<0, 0, 0>> >>),
     Call("placeRoad", 1, << <<0, 0, 0>>, TRUE, <<0, 0, 0>> >>),
     Call("advanceSetup", 1, <<>>),
     Call("rollDice", 1, <<2, 3>>),
     Call("placeRoad", 1, << <<1, -1, 2>>, FALSE, <<>> >>),
     Call("endTurn", 1, <<>>),
     Call("rollDice", 2, <<2, 3>>),
     Call("endTurn", 2, <<>>),
     Call("rollDice", 1, <<2, 3>>),
     Call("placeRoad", 1, << <<1, -1, 1>>, FALSE, <<>> >>),
     Call("placeRoad", 1, << <<1, -1, 0>>, FALSE, <<>> >>),
     Call("endTurn", 1, <<>>),
     Call("rollDice", 2, <<2, 3>>),
     Call("endTurn", 2, <<>>),
     Call("rollDice", 1, <<4, 4>>),
     Call("placeRoad", 1, << <<1, -1, 5>>, FALSE, <<>> >>),
     Call("endTurn", 1, <<>>),
     Call("rollDice", 2, <<4, 4>>),
     Call("endTurn", 2, <<>>),
     Call("rollDice", 1, <<4, 6>>),
     Call("endTurn", 1, <<>>),
     Call("rollDice", 2, <<4, 6>>),
     Call("proposeTrade", 2, <<NoResources, [NoResources EXCEPT !.grain = 1]>>),
     Call("respondToTrade", 1, <<TRUE>>),
     Call("placeRoad", 2, << <<2, -2, 2>>, FALSE, <<>> >>),
     Call("placeSettlement", 2, << <<1, -1, 1>> >>),
     Call("endTurn", 2, <<>>),
     Call("rollDice", 1, <<2, 3>>),
     Call("placeRoad", 1, << <<0, 0, 5>>, FALSE, <<>> >>) >>

RecordedRoads ==
  Replay(RecordedGameRoads,
         createGame(HostId, FALSE, FALSE, LayoutTerrain, LayoutNumbers, LayoutDeck))

(* A three-player game about the longest road.  Player 1 builds along the   *)
(* top of hexes -1,0 and 0,0, player 2 round hex -1,1, player 3 round hex   *)
(* 1,0.  Player 1 is the first with five roads and takes the title; player  *)
(* 2 and then player 3 draw level with five each.  Player 3 settles the     *)
(* corner 1,0,5 inside player 1's road, and player 1's next road, on the    *)
(* cut-off end, leaves players 2 and 3 tied in front.                       *)
RecordedGameRivals ==
  << Call("addPlayer", 2, <<>>),
     Call("addPlayer", 3, <<>>),
     Call("startGame", 1, << [i \in 0..2 |-> i] >>),
     Call("placeSettlement", 1, << <<-1, 0, 5>> >>),
     Call("placeRoad", 1, << <<-1, 0, 5>>, TRUE, <<-1, 0, 5>> >>),
     Call("advanceSetup", 1, <<>>),
     Call("placeSettlement", 2, << <<-1, 1, 1>> >>),
     Call("placeRoad", 2, << <<-1, 1, 0>>, TRUE, <<-1, 1, 1>> >>),
     Call("advanceSetup", 2, <<>>),
     Call("placeSettlement", 3, << <<1, 0, 3>> >>),
     Call("placeRoad", 3, << <<1, 0, 2>>, TRUE, <<1, 0, 3>> >>),
     Call("advanceSetup", 3, <<>>),
     Call("placeSettlement", 3, << <<1, 0, 1>> >>),
     Call("placeRoad", 3, << <<1, 0, 1>>, TRUE, <<1, 0, 1>> >>),
     Call("advanceSetup", 3, <<>>),
     Call("placeSettlement", 2, << <<-1, 1, 5>> >>),
     Call("placeRoad", 2, << <<-1, 1, 5>>, TRUE, <<-1, 1, 5>> >>),
     Call("advanceSetup", 2, <<>>),
     Call("placeSettlement", 1, << <<-1, 0, 1>> >>),
     Call("placeRoad", 1, << <<-1, 0, 0>>, TRUE, <<-1, 0, 1>> >>),
     Call("advanceSetup", 1, <<>>),
     Call("rollDice", 1, <<2, 3>>),
     Call("placeRoad", 1, << <<0, 0, 5>>, FALSE, <<>> >>),
     Call("endTurn", 1, <<>>),
     Call("rollDice", 2, <<4, 4>>),
     Call("placeRoad", 2, << <<-1, 1, 1>>, FALSE, <<>> >>),
     Call("placeRoad", 2, << <<-1, 1, 2>>, FALSE, <<>> >>),
     Call("endTurn", 2, <<>>),
     Call("rollDice", 3, <<2, 2>>),
     Call("endTurn", 3, <<>>),
     Call("rollDice", 1, <<2, 3>>),
     Call("placeRoad", 1, << <<0, 0, 0>>, FALSE, <<>> >>),
     Call("endTurn", 1, <<>>),
     Call("rollDice", 2, <<2, 3>>),
     Call("endTurn", 2, <<>>),
     Call("rollDice", 3, <<2, 3>>),
     Call("proposeTrade", 3, <<[NoResources EXCEPT !.ore = 1],
          [NoResources EXCEPT !.lumber = 4]>>),
     Call("respondToTrade", 1, <<TRUE>>),
     Call("endTurn", 3, <<>>),
     Call("rollDice", 1, <<4, 4>>),
     Call("placeRoad", 1, << <<0, 0, 1>>, FALSE, <<>> >>),
     Call("endTurn", 1, <<>>),
     Call("rollDice", 2, <<4, 4>>),
     Call("placeRoad", 2, << <<-1, 1, 3>>, FALSE, <<>> >>),
     Call("endTurn", 2, <<>>),
     Call("rollDice", 3, <<2, 2>>),
     Call("proposeTrade", 3, <<[NoResources EXCEPT !.ore = 1],
          [NoResources EXCEPT !.brick = 4]>>),
     Call("respondToTrade", 2, <<TRUE>>),
     Call("placeRoad", 3, << <<1, 0, 0>>, FALSE, <<>> >>),
     Call("placeRoad", 3, << <<1, 0, 5>>, FALSE, <<>> >>),
     Call("placeRoad", 3, << <<1, 0, 3>>, FALSE, <<>> >>),
     Call("placeSettlement", 3, << <<1, 0, 5>> >>),
     Call("endTurn", 3, <<>>),
     Call("rollDice", 1, <<2, 2>>),
     Call("placeRoad", 1, << <<0, 0, 2>>, FALSE, <<>> >>) >>

RecordedRivals ==
  Replay(RecordedGameRivals,
         createGame(HostId, FALSE, FALSE, LayoutTerrain, LayoutNumbers, LayoutDeck))

(* The endgame again, but player 1 spends the traded brick and lumber on    *)
(* four roads round hex 1,-1: the fifth road of its chain brings the        *)
(* longest road while it holds 3 visible and 5 hidden victory points.       *)
RecordedGameRoadWin ==
  SubSeq(RecordedGameEndgame, 1, 47) \o
  << Call("placeRoad", 1, << <<1, -1, 2>>, FALSE, <<>> >>),
     Call("placeRoad", 1, << <<1, -1, 1>>, FALSE, <<>> >>),
     Call("placeRoad", 1, << <<1, -1, 0>>, FALSE, <<>> >>),
     Call("placeRoad", 1, << <<1, -1, 5>>, FALSE, <<>> >>) >>

RecordedRoadWin ==
  Replay(RecordedGameRoadWin,
         createGame(HostId, FALSE, FALSE, LayoutTerrain, LayoutNumbers,
                      LayoutDeckEndgame))

(* A two-player game about the ports.  Player 1 settles a corner of the ore  *)
(* port and a corner of a generic port, player 2 a corner of the brick      *)
(* port.  The 3s pay player 1 wool, the 8s pay player 2 brick and wool;     *)
(* player 1 trades 3 wool at 3:1 and 2 ore at 2:1, player 2 trades 4 wool   *)
(* at 4:1 and 2 brick at 2:1.                                               *)
RecordedGamePorts ==
  << Call("addPlayer", 2, <<>>),
     Call("startGame", 1, << [i \in 0..1 |-> i] >>),
     Call("placeSettlement", 1, << <<2, -2, 1>> >>),
     Call("placeRoad", 1, << <<2, -2, 1>>, TRUE, <<2, -2, 1>> >>),
     Call("advanceSetup", 1, <<>>),
     Call("placeSettlement", 2, << <<-2, 2, 4>> >>),
     Call("placeRoad", 2, << <<-2, 2, 4>>, TRUE, <<-2, 2, 4>> >>),
     Call("advanceSetup", 2, <<>>),
     Call("placeSettlement", 2, << <<0, 0, 3>> >>),
     Call("placeRoad", 2, << <<0, 0, 3>>, TRUE, <<0, 0, 3>> >>),
     Call("advanceSetup", 2, <<>>),
     Call("placeSettlement", 1, << <<2, -1, 2>> >>),
     Call("placeRoad", 1, << <<2, -1, 2>>, TRUE, <<2, -1, 2>> >>),
     Call("advanceSetup", 1, <<>>),
     Call("rollDice", 1, <<1, 2>>),
     Call("endTurn", 1, <<>>),
     Call("rollDice", 2, <<4, 4>>),
     Call("endTurn", 2, <<>>),
     Call("rollDice", 1, <<1, 2>>),
     Call("endTurn", 1, <<>>),
     Call("rollDice", 2, <<4, 4>>),
     Call("endTurn", 2, <<>>),
     Call("rollDice", 1, <<1, 2>>),
     Call("bankTrade", 1, <<"wool", 3, "ore">>),
     Call("bankTrade", 1, <<"ore", 2, "brick">>),
     Call("endTurn", 1, <<>>),
     Call("rollDice", 2, <<4, 4>>),
     Call("bankTrade", 2, <<"wool", 4, "grain">>),
     Call("bankTrade", 2, <<"brick", 2, "ore">>) >>

RecordedPorts ==
  Replay(RecordedGamePorts,
         createGame(HostId, FALSE, FALSE, LayoutTerrain, LayoutNumbers, LayoutDeck))

(* A three-player game about the monopoly card.  Player 1 settles the ore,  *)
(* grain and wool corner 0,0,0 and buys a knight and then the monopoly with *)
(* what the 6s and 3s pay; player 2 holds 1 lumber and player 3 holds 2     *)
(* when player 1 plays the monopoly for lumber in its third turn.           *)
RecordedGameMonopoly ==
  << Call("addPlayer", 2, <<>>),
     Call("addPlayer", 3, <<>>),
     Call("startGame", 1, << [i \in 0..2 |-> i] >>),
     Call("placeSettlement", 1, << <<2, -2, 1>> >>),
     Call("placeRoad", 1, << <<2, -2, 1>>, TRUE, <<2, -2, 1>> >>),
     Call("advanceSetup", 1, <<>>),
     Call("placeSettlement", 2, << <<-1, 1, 1>> >>),
     Call("placeRoad", 2, << <<-1, 1, 1>>, TRUE, <<-1, 1, 1>> >>),
     Call("advanceSetup", 2, <<>>),
     Call("placeSettlement", 3, << <<1, 0, 1>> >>),
     Call("placeRoad", 3, << <<1, 0, 1>>, TRUE, <<1, 0, 1>> >>),
     Call("advanceSetup", 3, <<>>),
     Call("placeSettlement", 3, << <<1, 0, 3>> >>),
     Call("placeRoad", 3, << <<1, 0, 3>>, TRUE, <<1, 0, 3>> >>),
     Call("advanceSetup", 3, <<>>),
     Call("placeSettlement", 2, << <<-1, 0, 3>> >>),
     Call("placeRoad", 2, << <<-1, 0, 3>>, TRUE, <<-1, 0, 3>> >>),
     Call("advanceSetup", 2, <<>>),
     Call("placeSettlement", 1, << <<0, 0, 0>> >>),
     Call("placeRoad", 1, << <<0, 0, 0>>, TRUE, <<0, 0, 0>> >>),
     Call("advanceSetup", 1, <<>>),
     Call("rollDice", 1, <<2, 4>>),
     Call("buyDevCard", 1, <<>>),
     Call("endTurn", 1, <<>>),
     Call("rollDice", 2, <<4, 4>>),
     Call("endTurn", 2, <<>>),
     Call("rollDice", 3, <<1, 2>>),
     Call("endTurn", 3, <<>>),
     Call("rollDice", 1, <<2, 4>>),
     Call("buyDevCard", 1, <<>>),
     Call("endTurn", 1, <<>>),
     Call("rollDice", 2, <<1, 2>>),
     Call("endTurn", 2, <<>>),
     Call("rollDice", 3, <<1, 2>>),
     Call("endTurn", 3, <<>>),
     Call("rollDice", 1, <<2, 4>>),
     Call("playDevCard", 1, <<"monopoly", "lumber">>) >>

RecordedMonopoly ==
  Replay(RecordedGameMonopoly,
         createGame(HostId, FALSE, FALSE, LayoutTerrain, LayoutNumbers, LayoutDeck))

(* The game of the rivals with another last road: player 1 lays it on the  *)
(* edge 0,0,4, which meets its roads -1,0,0 and 0,0,5 at the corner of its  *)
(* second settlement, so that three of its roads meet at one vertex.        *)
RecordedGameFork ==
  SubSeq(RecordedGameRivals, 1, 54) \o
  << Call("placeRoad", 1, << <<0, 0, 4>>, FALSE, <<>> >>) >>

RecordedFork ==
  Replay(RecordedGameFork,
         createGame(HostId, FALSE, FALSE, LayoutTerrain, LayoutNumbers, LayoutDeck))

(* The five-player game up to player 2's bank trade for ore.  Player 2     *)
(* then buys a knight and ends its turn, which moves the knight to its      *)
(* playable cards and opens the special-build rotation with player 2 still  *)
(* the active player; it plays the knight and moves the robber.             *)
RecordedGameSecondRoll ==
  SubSeq(RecordedGameExtended, 1, 47) \o
  << Call("buyDevCard", 2, <<>>),
     Call("endTurn", 2, <<>>),
     Call("playDevCard", 2, <<"knight", "none">>),
     Call("moveRobber", 2, << <<0, -1>>, Null, 0 >>) >>

RecordedSecondRoll ==
  Replay(RecordedGameSecondRoll,
         createGame(HostId, TRUE, TRUE, TERRAIN_DISTRIBUTION_EXTENDED,
                      NUMBER_TOKENS_EXTENDED, LayoutDeck))

(* a third outcome of shuffle(DEV_CARD_DISTRIBUTION): the knights are drawn *)
(* first                                                                    *)
LayoutDeckArmy ==
  Rep(5, "victoryPoint") \o Rep(2, "roadBuilding") \o Rep(2, "yearOfPlenty")
    \o Rep(2, "monopoly") \o Rep(14, "knight")

(* A two-player game about the largest army, after the setup of             *)
(* RecordedGame.  The 6s and 3s pay player 1 a development card a turn: it  *)
(* buys three knights and plays each the turn after, moving the robber      *)
(* between hex -2,2 and the desert; the third knight gives it the title.    *)
RecordedGameArmy ==
  SubSeq(RecordedGame, 1, 14) \o
  << Call("rollDice", 1, <<2, 4>>),
     Call("buyDevCard", 1, <<>>),
     Call("endTurn", 1, <<>>),
     Call("rollDice", 2, <<1, 2>>),
     Call("endTurn", 2, <<>>),
     Call("rollDice", 1, <<2, 4>>),
     Call("playDevCard", 1, <<"knight", "none">>),
     Call("moveRobber", 1, << <<-2, 2>>, Null, 0 >>),
     Call("buyDevCard", 1, <<>>),
     Call("endTurn", 1, <<>>),
     Call("rollDice", 2, <<1, 2>>),
     Call("endTurn", 2, <<>>),
     Call("rollDice", 1, <<2, 4>>),
     Call("playDevCard", 1, <<"knight", "none">>),
     Call("moveRobber", 1, << <<0, 2>>, Null, 0 >>),
     Call("buyDevCard", 1, <<>>),
     Call("endTurn", 1, <<>>),
     Call("rollDice", 2, <<1, 2>>),
     Call("endTurn", 2, <<>>),
     Call("rollDice", 1, <<2, 4>>),
     Call("playDevCard", 1, <<"knight", "none">>),
     Call("moveRobber", 1, << <<-2, 2>>, Null, 0 >>),
     Call("endTurn", 1, <<>>) >>

RecordedArmy ==
  Replay(RecordedGameArmy,
         createGame(HostId, FALSE, FALSE, LayoutTerrain, LayoutNumbers, LayoutDeckArmy))

-----------------------------------------------------------------------------
(* The state machine                                                        *)

WithinBounds(g) ==
  \A i \in DOMAIN g.players : TotalCards(g.players[i].resources) <= MaxHand

(* the call returns res; a successful call is explored within the bounds *)
Step(op, res) ==
  /\ calls < MaxCalls
  /\ res.success => WithinBounds(res.g)
  /\ game' = res.g
  /\ last' = [op |-> op, success |-> res.success]
  /\ calls' = calls + 1

(* the states of the recorded game, every call of which succeeds *)
Init ==
  /\ IsShuffleOf(LayoutTerrain, TERRAIN_DISTRIBUTION_STANDARD)
  /\ IsShuffleOf(LayoutNumbers, NUMBER_TOKENS_STANDARD)
  /\ IsShuffleOf(LayoutDeck, DEV_CARD_DISTRIBUTION)
  /\ Recorded.ok
  /\ \E k \in 0..Len(RecordedGame) :
       /\ game = Recorded.games[k + 1]
       /\ last = [op |-> IF k = 0 THEN "createGame" ELSE RecordedGame[k].op,
                  success |-> TRUE]
  /\ calls = 0

AddPlayer ==
  Step("addPlayer", addPlayer(game, FreshId(game)))

StartGame ==
  \E order \in PlayerOrders(game) : Step("startGame", startGame(game, order))

ShuffleBoard ==
  Step("shuffleBoard",
       IF game.isExtended
       THEN shuffleBoard(game, LayoutTerrainExtended, LayoutNumbersExtended)
       ELSE shuffleBoard(game, LayoutTerrain, LayoutNumbers))

RollDice ==
  \E id \in CallerIds, d \in DiceIn : Step("rollDice", rollDice(game, id, d[1], d[2]))

DiscardCards ==
  \E id \in CallerIds, r \in DiscardsIn : Step("discardCards", discardCards(game, id, r))

MoveRobber ==
  \E id \in CallerIds, h \in HexesIn, victim \in {Null, 2}, u \in 0..MaxDraw :
    Step("moveRobber", moveRobber(game, id, h, victim, u))

PlaceSettlement ==
  \E id \in CallerIds, v \in VerticesIn :
    Step("placeSettlement", placeSettlement(game, id, v))

PlaceRoad ==
  \E id \in CallerIds, e \in EdgesIn, isSetup \in BOOLEAN, ls \in LastSettlementsIn :
    Step("placeRoad", placeRoad(game, id, e, isSetup, ls))

UpgradeToCity ==
  \E id \in CallerIds, v \in VerticesIn : Step("upgradeToCity", upgradeToCity(game, id, v))

BuyDevCard ==
  \E id \in CallerIds : Step("buyDevCard", buyDevCard(game, id))

PlayDevCard ==
  \E id \in CallerIds, card \in CardsIn, resource \in MonopolyIn :
    Step("playDevCard", playDevCard(game, id, card, resource))

YearOfPlentyPick ==
  \E id \in CallerIds, resource \in PicksIn :
    Step("yearOfPlentyPick", yearOfPlentyPick(game, id, resource))

BankTrade ==
  \E id \in CallerIds, give \in BankGiveIn, amount \in BankAmountsIn, get \in BankGetIn :
    Step("bankTrade", bankTrade(game, id, give, amount, get))

ProposeTrade ==
  \E id \in CallerIds, offer \in OffersIn, request \in RequestsIn :
    Step("proposeTrade", proposeTrade(game, id, offer, request))

RespondToTrade ==
  \E id \in CallerIds, accept \in BOOLEAN :
    Step("respondToTrade", respondToTrade(game, id, accept))

CancelTrade ==
  \E id \in CallerIds : Step("cancelTrade", cancelTrade(game, id))

EndTurn ==
  \E id \in CallerIds : Step("endTurn", endTurn(game, id))

EndSpecialBuild ==
  \E id \in CallerIds : Step("endSpecialBuild", endSpecialBuild(game, id))

AdvanceSetup ==
  \E id \in CallerIds : Step("advanceSetup", advanceSetup(game, id))

Next ==
  \/ AddPlayer
  \/ StartGame
  \/ ShuffleBoard
  \/ RollDice
  \/ DiscardCards
  \/ MoveRobber
  \/ PlaceSettlement
  \/ PlaceRoad
  \/ UpgradeToCity
  \/ BuyDevCard
  \/ PlayDevCard
  \/ YearOfPlentyPick
  \/ BankTrade
  \/ ProposeTrade
  \/ RespondToTrade
  \/ CancelTrade
  \/ EndTurn
  \/ EndSpecialBuild
  \/ AdvanceSetup

Spec == Init /\ [][Next]_vars

(* the states of the recorded five-player game *)
InitExtended ==
  /\ RecordedExtended.ok
  /\ \E k \in 0..Len(RecordedGameExtended) :
       /\ game = RecordedExtended.games[k + 1]
       /\ last = [op |-> IF k = 0 THEN "createGame" ELSE RecordedGameExtended[k].op,
                  success |-> TRUE]
  /\ calls = 0

SpecExtended == InitExtended /\ [][Next]_vars

(* the states of the recorded endgame, and the other way it can end: the    *)
(* first settlement becomes a city                                          *)
EndgameCity ==
  upgradeToCity(RecordedEndgame.games[Len(RecordedGameEndgame)], 1, <<2, -2, 1>>)

InitEndgame ==
  /\ IsShuffleOf(LayoutDeckEndgame, DEV_CARD_DISTRIBUTION)
  /\ RecordedEndgame.ok
  /\ EndgameCity.success
  /\ \/ \E k \in 0..Len(RecordedGameEndgame) :
          /\ game = RecordedEndgame.games[k + 1]
          /\ last = [op |-> IF k = 0 THEN "createGame" ELSE RecordedGameEndgame[k].op,
                     success |-> TRUE]
     \/ /\ game = EndgameCity.g
        /\ last = [op |-> "upgradeToCity", success |-> TRUE]
  /\ calls = 0

SpecEndgame == InitEndgame /\ [][Next]_vars

(* the states of the recorded game about the longest road *)
InitRoads ==
  /\ RecordedRoads.ok
  /\ \E k \in 0..Len(RecordedGameRoads) :
       /\ game = RecordedRoads.games[k + 1]
       /\ last = [op |-> IF k = 0 THEN "createGame" ELSE RecordedGameRoads[k].op,
                  success |-> TRUE]
  /\ calls = 0

SpecRoads == InitRoads /\ [][Next]_vars

(* the states of a recorded game from call number from on *)
StatesFrom(script, recorded, from) ==
  /\ recorded.ok
  /\ \E k \in from..Len(script) :
       /\ game = recorded.games[k + 1]
       /\ last = [op |-> script[k].op, success |-> TRUE]
  /\ calls = 0

(* The states in which the longest road is at stake: the two-player game    *)
(* from the road that takes the title, the three-player game from the turn  *)
(* before the first title, the endgame from the trade that pays the roads   *)
InitTitles ==
  /\ IsShuffleOf(LayoutDeck, DEV_CARD_DISTRIBUTION)
  /\ IsShuffleOf(LayoutDeckEndgame, DEV_CARD_DISTRIBUTION)
  /\ \/ StatesFrom(RecordedGameRoads, RecordedRoads, 27)
     \/ StatesFrom(RecordedGameRivals, RecordedRivals, 36)
     \/ StatesFrom(RecordedGameRoadWin, RecordedRoadWin, 47)

SpecTitles == InitTitles /\ [][Next]_vars

(* the states of the recorded game about the ports *)
InitPorts ==
  /\ IsShuffleOf(LayoutDeck, DEV_CARD_DISTRIBUTION)
  /\ StatesFrom(RecordedGamePorts, RecordedPorts, 1)

SpecPorts == InitPorts /\ [][Next]_vars

(* the states of the recorded game about the monopoly, from its last setup  *)
(* placement on                                                             *)
InitMonopoly ==
  /\ IsShuffleOf(LayoutDeck, DEV_CARD_DISTRIBUTION)
  /\ StatesFrom(RecordedGameMonopoly, RecordedMonopoly, 19)

SpecMonopoly == InitMonopoly /\ [][Next]_vars

(* the last states of the recorded endgame: player 1 holds hidden victory   *)
(* points and development cards, and the last call finishes the game        *)
InitView ==
  /\ IsShuffleOf(LayoutDeckEndgame, DEV_CARD_DISTRIBUTION)
  /\ StatesFrom(RecordedGameEndgame, RecordedEndgame, 40)

SpecView == InitView /\ [][Next]_vars

(* the turns of the first recorded game, where player 1 buys and plays      *)
(* development cards, and the last states of the five-player game with its  *)
(* special-build slots                                                      *)
InitCards ==
  /\ IsShuffleOf(LayoutDeck, DEV_CARD_DISTRIBUTION)
  /\ \/ StatesFrom(RecordedGame, Recorded, 15)
     \/ StatesFrom(RecordedGameExtended, RecordedExtended, 40)

SpecCards == InitCards /\ [][Next]_vars

(* the last states of the game with the fork *)
InitFork ==
  /\ IsShuffleOf(LayoutDeck, DEV_CARD_DISTRIBUTION)
  /\ StatesFrom(RecordedGameFork, RecordedFork, 50)

SpecFork == InitFork /\ [][Next]_vars

(* the turn of player 2 in the game with the knight played after endTurn *)
InitSecondRoll ==
  /\ IsShuffleOf(LayoutDeck, DEV_CARD_DISTRIBUTION)
  /\ StatesFrom(RecordedGameSecondRoll, RecordedSecondRoll, 41)

SpecSecondRoll == InitSecondRoll /\ [][Next]_vars

(* the states of the recorded game about the largest army *)
InitArmy ==
  /\ IsShuffleOf(LayoutDeckArmy, DEV_CARD_DISTRIBUTION)
  /\ RecordedArmy.ok
  /\ \E k \in 0..Len(RecordedGameArmy) :
       /\ game = RecordedArmy.games[k + 1]
       /\ last = [op |-> IF k = 0 THEN "createGame" ELSE RecordedGameArmy[k].op,
                  success |-> TRUE]
  /\ calls = 0

SpecArmy == InitArmy /\ [][Next]_vars

(* the states of both the five-player game and the endgame *)
InitBuilding == InitExtended \/ InitEndgame

SpecBuilding == InitBuilding /\ [][Next]_vars

-----------------------------------------------------------------------------
(* Vocabulary of the properties                                             *)

(* the id of the active player *)
ActiveId(g) == g.players[g.currentPlayerIndex].id

(* waiting -> setup -> playing -> finished *)
PhaseRank(phase) ==
  CASE phase = "waiting" -> 0
    [] phase = "setup" -> 1
    [] phase = "playing" -> 2
    [] phase = "finished" -> 3

-----------------------------------------------------------------------------
(* C1: in every reachable state every resource counter of every player is  *)
(* at least 0, also after a trade is accepted that the proposer can no      *)
(* longer pay.                                                              *)
C1_ResourcesNeverNegative ==
  \A i \in DOMAIN game.players : \A res \in RESOURCES :
    game.players[i].resources[res] >= 0

(* C2: a call that returns success:false leaves the whole game aggregate    *)
(* as it was before the call.                                               *)
C2_FailureLeavesGameUntouched ==
  [][last'.success = FALSE => game' = game]_vars

(* C3: no call moves the coarse phase backwards along waiting, setup,       *)
(* playing, finished; in particular nothing leaves finished.                *)
C3_PhaseOnlyMovesForward ==
  [][PhaseRank(game'.phase) >= PhaseRank(game.phase)]_vars

(* the caller may place a piece: the active player during setup; during     *)
(* playing the active player in fine phase main, or the holder of the       *)
(* special-build slot                                                       *)
MayPlace(g, id) ==
  \/ g.phase = "setup" /\ ActiveId(g) = id
  \/ /\ g.phase = "playing"
     /\ \/ ActiveId(g) = id /\ g.turnPhase = "main"
        \/ g.specialBuildingPhase /\ g.players[g.specialBuildIndex].id = id

(* res is the result of a placement call by id in game g *)
PlacementGuarded(g, id, res) ==
  IF res.success THEN MayPlace(g, id) ELSE res.g = g

(* C4: placeSettlement and placeRoad succeed only for a caller who may      *)
(* place (the right actor in the right phase); every other call fails       *)
(* without mutation.                                                        *)
C4_PlacementGuardedByActorAndPhase ==
  /\ \A id \in CallerIds, v \in VerticesIn :
       PlacementGuarded(game, id, placeSettlement(game, id, v))
  /\ \A id \in CallerIds, e \in EdgesIn, isSetup \in BOOLEAN, ls \in LastSettlementsIn :
       PlacementGuarded(game, id, placeRoad(game, id, e, isSetup, ls))

(* res is the result of playDevCard by id in game g *)
PlayGuarded(g, id, res) ==
  IF /\ ActiveId(g) = id
     /\ g.phase = "playing"
     /\ g.turnPhase \in {"main", "roll"}
  THEN TRUE
  ELSE ~res.success /\ res.g = g

(* C5: playDevCard succeeds only for the active player, in coarse phase     *)
(* playing and fine phase main or roll; otherwise it fails and changes      *)
(* nothing.                                                                 *)
C5_PlayDevCardGuarded ==
  \A id \in CallerIds, card \in CardsIn, resource \in MonopolyIn :
    PlayGuarded(game, id, playDevCard(game, id, card, resource))

(* C6: obligations are open only in fine phase discard, and fine phase      *)
(* discard with open obligations is left only for robber, and only when     *)
(* no obligation is left.                                                   *)
C6_DiscardPhasePersists ==
  /\ [](game.discardingPlayers # <<>> => game.turnPhase = "discard")
  /\ [][(game.turnPhase = "discard" /\ game.discardingPlayers # <<>>)
          => \/ game'.turnPhase = "discard" /\ game'.discardingPlayers # <<>>
             \/ game'.turnPhase = "robber" /\ game'.discardingPlayers = <<>>]_vars

(* the obligations a 7 creates in game g: floor(total / 2) for every player *)
(* holding more than 7 cards                                                *)
Owed(g) ==
  {[playerIndex |-> i, cardsToDiscard |-> TotalCards(g.players[i].resources) \div 2] :
     i \in {j \in DOMAIN g.players : TotalCards(g.players[j].resources) > 7}}

(* C7: after a successful roll of 7 the obligations are exactly those of    *)
(* the players holding more than 7 cards, no counter has changed, and the   *)
(* fine phase is discard if there is an obligation and robber otherwise.    *)
C7_SevenCreatesExactObligations ==
  [][(last'.op = "rollDice" /\ last'.success /\ game'.diceRoll.total = 7)
       => /\ Range(game'.discardingPlayers) = Owed(game)
          /\ \A i \in DOMAIN game.players :
               game'.players[i].resources = game.players[i].resources
          /\ game'.turnPhase = IF Owed(game) # {} THEN "discard" ELSE "robber"]_vars

(* the pairs <<hex, vertex key>> that credit player i with resource res on  *)
(* a roll: the hex carries the token, is not the robber's hex and produces  *)
(* res; the vertex key holds a building of the kind owned by i and lies on  *)
(* one of the six corners of the hex                                        *)
Crediting(g, roll, i, res, kind) ==
  {p \in {h \in DOMAIN g.hexes : /\ g.hexes[h].number = roll
                                 /\ h # g.robber
                                 /\ g.hexes[h].resource = res}
         \X {v \in DOMAIN g.vertices : /\ g.vertices[v].building = kind
                                       /\ g.vertices[v].owner = i} :
     \E dir \in 0..5 : areVerticesAtSamePosition(p[2], <<p[1][1], p[1][2], dir>>)}

(* 1 per settlement and 2 per city, once per qualifying hex *)
ExpectedGain(g, roll, i, res) ==
  Cardinality(Crediting(g, roll, i, res, "settlement"))
    + 2 * Cardinality(Crediting(g, roll, i, res, "city"))

(* res is the result of a successful rollDice with the given total in g *)
RollDistributes(g, total, res) ==
  /\ res.g.turnPhase = "main"
  /\ \A i \in DOMAIN g.players : \A r \in RESOURCES :
       /\ res.resourceGains[i][r] = ExpectedGain(g, total, i, r)
       /\ res.g.players[i].resources[r] = g.players[i].resources[r] + res.resourceGains[i][r]

(* C8: a successful roll of a total other than 7 credits every player, per  *)
(* resource, 1 per settlement and 2 per city on the corners of every hex    *)
(* with that token that produces the resource and is not the robber's hex;  *)
(* the returned gains are the counter changes and the fine phase is main.   *)
C8_RollDistributesByCorners ==
  \A id \in CallerIds, d \in DiceIn :
    (d[1] + d[2] # 7 /\ rollDice(game, id, d[1], d[2]).success)
      => RollDistributes(game, d[1] + d[2], rollDice(game, id, d[1], d[2]))

(* a 6 was rolled while the robber stood on the ore hex with token 6 next   *)
(* to the city of the first player                                          *)
C8_Witness ==
  /\ last.op = "rollDice" /\ last.success
  /\ game.diceRoll.total = 6
  /\ game.robber = <<0, -1>>
  /\ game.vertices[<<0, 0, 0>>].building = "city"
  /\ game.turnPhase = "main"

(* res is the result of discardCards(g, id, amounts) *)
DiscardContract(g, id, amounts, res) ==
  IF res.success
  THEN \E k \in DOMAIN g.discardingPlayers :
         /\ g.players[g.discardingPlayers[k].playerIndex].id = id
         /\ TotalCards(amounts) = g.discardingPlayers[k].cardsToDiscard
         /\ \A r \in RESOURCES :
              /\ amounts[r] <= g.players[g.discardingPlayers[k].playerIndex].resources[r]
              /\ res.g.players[g.discardingPlayers[k].playerIndex].resources[r]
                   = g.players[g.discardingPlayers[k].playerIndex].resources[r] - amounts[r]
         /\ \A j \in DOMAIN g.players :
              j # g.discardingPlayers[k].playerIndex
                => res.g.players[j].resources = g.players[j].resources
         /\ Range(res.g.discardingPlayers)
              = Range(g.discardingPlayers) \ {g.discardingPlayers[k]}
         /\ Len(res.g.discardingPlayers) = Len(g.discardingPlayers) - 1
         /\ res.g.turnPhase = IF res.g.discardingPlayers = <<>> THEN "robber"
                              ELSE g.turnPhase
  ELSE res.g = g

(* C9: discardCards succeeds only for a player with an open obligation who  *)
(* discards exactly the owed count out of cards held; then the counters     *)
(* drop by the discarded amounts, only that obligation is removed, and the  *)
(* call sets the fine phase to robber exactly when no obligation is left;   *)
(* a failing call changes nothing.                                          *)
C9_DiscardCardsContract ==
  \A id \in CallerIds, amounts \in DiscardsIn :
    DiscardContract(game, id, amounts, discardCards(game, id, amounts))

(* the last of two obligations was discharged and the robber phase began *)
C9_Witness ==
  /\ last.op = "discardCards" /\ last.success
  /\ game.discardingPlayers = <<>>
  /\ game.turnPhase = "robber"
  /\ calls = 2

(* res is the result of moveRobber(g, id, h, ...) *)
RobberContract(g, id, h, res) ==
  IF res.success
  THEN /\ ActiveId(g) = id
       /\ g.turnPhase = "robber"
       /\ h \in DOMAIN g.hexes
       /\ h # g.robber
       /\ res.g.robber = h
       /\ res.g.turnPhase = IF g.hasRolledThisTurn THEN "main" ELSE "roll"
  ELSE res.g.robber = g.robber /\ res.g.turnPhase = g.turnPhase

(* C10: moveRobber succeeds only for the active player in fine phase robber *)
(* with a hex of the board other than the robber's; then the robber is on   *)
(* that hex and the fine phase is main if the dice were rolled this turn    *)
(* and roll otherwise; a failing call moves neither; once the game has      *)
(* started no other operation moves the robber.                             *)
C10_MoveRobberContract ==
  /\ [](\A id \in CallerIds, h \in HexesIn, victim \in {Null, 2}, u \in 0..MaxDraw :
          RobberContract(game, id, h, moveRobber(game, id, h, victim, u)))
  /\ [][(game.phase # "waiting" /\ game'.robber # game.robber)
          => last'.op = "moveRobber"]_vars

(* the robber was moved after a knight played before the roll *)
C10_Witness ==
  /\ last.op = "moveRobber" /\ last.success
  /\ ~game.hasRolledThisTurn
  /\ game.turnPhase = "roll"
  /\ game.robber # <<0, 2>>

-----------------------------------------------------------------------------
(* player i has a building on one of the six corners of hex h *)
HasBuildingOnHex(g, h, i) ==
  \E v \in DOMAIN g.vertices :
    /\ g.vertices[v].building # "none"
    /\ g.vertices[v].owner = i
    /\ \E dir \in 0..5 : areVerticesAtSamePosition(v, <<h[1], h[2], dir>>)

(* the players a card may be stolen from by naming victim, with the robber  *)
(* going to hex h: the victim is another player, has a building on h and    *)
(* holds a card                                                             *)
Robbable(g, h, victim) ==
  {i \in DOMAIN g.players : /\ g.players[i].id = victim
                            /\ i # g.currentPlayerIndex
                            /\ HasBuildingOnHex(g, h, i)
                            /\ TotalCards(g.players[i].resources) > 0}

(* res is the result of a successful moveRobber(g, id, h, victim, u) *)
StealContract(g, h, victim, res) ==
  IF Robbable(g, h, victim) # {}
  THEN \E i \in Robbable(g, h, victim), r \in RESOURCES :
         /\ g.players[i].resources[r] > 0
         /\ \A j \in DOMAIN g.players :
              res.g.players[j].resources =
                [g.players[j].resources EXCEPT
                   ![r] = @ + (IF j = g.currentPlayerIndex THEN 1 ELSE 0)
                            - (IF j = i THEN 1 ELSE 0)]
  ELSE \A j \in DOMAIN g.players : res.g.players[j].resources = g.players[j].resources

(* C11: a successful moveRobber moves exactly one card the victim holds     *)
(* from the victim to the active player when the named victim has a         *)
(* building on the robber's new hex and holds a card, and changes no        *)
(* resource counter otherwise.                                              *)
C11_StealOnlyFromHexNeighbour ==
  \A id \in CallerIds, h \in HexesIn, victim \in {Null, 2}, u \in 0..MaxDraw :
    moveRobber(game, id, h, victim, u).success
      => StealContract(game, h, victim, moveRobber(game, id, h, victim, u))

(* res is the result of endTurn(g, id); the special-building rotation       *)
(* applies to an extended game of more than 4 players with the rule on      *)
EndTurnContract(g, id, res) ==
  res.success =>
    /\ ActiveId(g) = id
    /\ g.turnPhase = "main"
    /\ res.g.players[g.currentPlayerIndex].developmentCards
         = g.players[g.currentPlayerIndex].developmentCards
             \o g.players[g.currentPlayerIndex].newDevCards
    /\ res.g.players[g.currentPlayerIndex].newDevCards = <<>>
    /\ res.g.freeRoads = 0
    /\ res.g.yearOfPlentyPicks = 0
    /\ ~res.g.devCardPlayedThisTurn
    /\ ~res.g.hasRolledThisTurn
    /\ res.g.tradeOffer = <<>>
    /\ ~(g.isExtended /\ g.enableSpecialBuild /\ Cardinality(DOMAIN g.players) > 4)
         => /\ res.g.currentPlayerIndex
                 = (g.currentPlayerIndex + 1) % Cardinality(DOMAIN g.players)
            /\ res.g.turnPhase = "roll"
    /\ \A j \in DOMAIN g.players :
         /\ res.g.players[j].resources = g.players[j].resources
         /\ res.g.players[j].victoryPoints = g.players[j].victoryPoints
         /\ res.g.players[j].hiddenVictoryPoints = g.players[j].hiddenVictoryPoints
    /\ res.g.vertices = g.vertices

(* C12: endTurn succeeds only for the active player in fine phase main;     *)
(* then the player's new development cards join the playable ones, the      *)
(* per-turn flags and counters are reset, the trade offer is gone, the      *)
(* next player is active in fine phase roll (no special-building rotation), *)
(* and no resources, buildings or victory points change.                    *)
C12_EndTurnContract ==
  \A id \in CallerIds : EndTurnContract(game, id, endTurn(game, id))

(* a turn was ended with an offer open and a card bought during the turn *)
C12_Witness ==
  /\ last.op = "endTurn" /\ last.success
  /\ calls = 1
  /\ game.players[0].developmentCards = <<"knight">>
  /\ game.players[0].newDevCards = <<>>
  /\ game.currentPlayerIndex = 1
  /\ game.turnPhase = "roll"


(* the special-building rotation applies: an extended game with the rule    *)
(* on and more than 4 players                                               *)
RotationApplies(g) ==
  g.isExtended /\ g.enableSpecialBuild /\ Cardinality(DOMAIN g.players) > 4

(* the player after index i *)
After(g, i) == (i + 1) % Cardinality(DOMAIN g.players)

(* C13: where the rotation applies, a successful endTurn by player p opens  *)
(* fine phase specialBuild with the slot at p+1 and p still active; while   *)
(* the rotation is on, the slot, the active player and the fine phase       *)
(* change only by a successful endSpecialBuild, which only the slot holder  *)
(* obtains: it passes the slot to the next player, or, when that player is  *)
(* p, ends the rotation with p+1 active, fine phase roll and the dice not   *)
(* rolled.  Where the rotation does not apply endTurn never opens it.       *)
C13_SpecialBuildRotation ==
  /\ [](\A id \in CallerIds :
          endSpecialBuild(game, id).success
            => /\ game.specialBuildingPhase
               /\ game.players[game.specialBuildIndex].id = id)
  /\ [][(last'.op = "endTurn" /\ last'.success)
          => IF RotationApplies(game)
             THEN /\ game'.specialBuildingPhase
                  /\ game'.turnPhase = "specialBuild"
                  /\ game'.specialBuildIndex = After(game, game.currentPlayerIndex)
                  /\ game'.currentPlayerIndex = game.currentPlayerIndex
             ELSE /\ ~game'.specialBuildingPhase
                  /\ game'.turnPhase # "specialBuild"]_vars
  /\ [][game.specialBuildingPhase
          => IF last'.op = "endSpecialBuild" /\ last'.success
             THEN IF After(game, game.specialBuildIndex) # game.currentPlayerIndex
                  THEN /\ game'.specialBuildingPhase
                       /\ game'.turnPhase = "specialBuild"
                       /\ game'.specialBuildIndex = After(game, game.specialBuildIndex)
                       /\ game'.currentPlayerIndex = game.currentPlayerIndex
                  ELSE /\ ~game'.specialBuildingPhase
                       /\ game'.turnPhase = "roll"
                       /\ game'.currentPlayerIndex = After(game, game.currentPlayerIndex)
                       /\ ~game'.hasRolledThisTurn
             ELSE /\ game'.specialBuildingPhase
                  /\ game'.turnPhase = "specialBuild"
                  /\ game'.specialBuildIndex = game.specialBuildIndex
                  /\ game'.currentPlayerIndex = game.currentPlayerIndex]_vars

(* the ids of the players of g, and the ids of the callers explored *)
Ids(g) == {g.players[i].id : i \in DOMAIN g.players} \cup CallerIds

(* the game the snake order prescribes after an accepted advanceSetup in g  *)
SnakeStep(g) ==
  IF g.setupPhase = 0
  THEN IF g.currentPlayerIndex < Cardinality(DOMAIN g.players) - 1
       THEN [g EXCEPT !.currentPlayerIndex = g.currentPlayerIndex + 1]
       ELSE [g EXCEPT !.setupPhase = 1]
  ELSE IF g.currentPlayerIndex > 0
       THEN [g EXCEPT !.currentPlayerIndex = g.currentPlayerIndex - 1]
       ELSE [g EXCEPT !.phase = "playing", !.turnPhase = "roll"]

(* C14: advanceSetup is accepted only from the active player while the      *)
(* phase is setup, and then moves the game one step along the snake order:  *)
(* forward in sub-phase 0, at the last player to sub-phase 1 with the same  *)
(* player, backward in sub-phase 1, and at player 0 to phase playing, fine  *)
(* phase roll, player 0 active; a refused call changes nothing.             *)
C14_AdvanceSetupSnakeOrder ==
  \A id \in Ids(game) :
    IF advanceSetup(game, id).success
    THEN /\ ActiveId(game) = id
         /\ game.phase = "setup"
         /\ advanceSetup(game, id).g = SnakeStep(game)
    ELSE advanceSetup(game, id).g = game

(* the tenth advanceSetup of a five-player game ended the setup *)
C14_Witness ==
  /\ last.op = "advanceSetup" /\ last.success
  /\ calls = 1
  /\ Cardinality(DOMAIN game.players) = 5
  /\ game.phase = "playing"
  /\ game.turnPhase = "roll"
  /\ game.currentPlayerIndex = 0
  /\ game.setupPhase = 1

(* res is the result of startGame in game g *)
StartGameContract(g, res) ==
  IF Cardinality(DOMAIN g.players) < 2
  THEN ~res.success /\ res.g = g
  ELSE /\ res.success
       /\ DOMAIN res.g.players = DOMAIN g.players
       /\ \A j \in DOMAIN g.players :
            Cardinality({i \in DOMAIN res.g.players :
                           res.g.players[i] = [g.players[j] EXCEPT !.turnOrder = i + 1]}) = 1
       /\ \A i \in DOMAIN res.g.players : res.g.players[i].turnOrder = i + 1
       /\ res.g.phase = "setup"
       /\ res.g.setupPhase = 0
       /\ res.g.currentPlayerIndex = 0

(* C15: startGame fails without mutation with fewer than 2 players; with 2  *)
(* or more it leaves the player list a permutation of itself (every player  *)
(* exactly once), numbers the turn orders 1..N in list order, and sets      *)
(* phase setup, sub-phase 0 and player 0 active.                            *)
C15_StartGameContract ==
  \A order \in PlayerOrders(game) : StartGameContract(game, startGame(game, order))

(* three players were put in an order that starts with the last joiner *)
C15_Witness ==
  /\ last.op = "startGame" /\ last.success
  /\ Cardinality(DOMAIN game.players) = 3
  /\ game.players[0].id = 3
  /\ game.players[2].id = 1
  /\ game.phase = "setup"

(* the squared pixel distance of the physical points two keys name *)
DistanceSq(v, w) ==
  SquaredDistance(getVertexPixelPosition(v[1], v[2], v[3]),
                  getVertexPixelPosition(w[1], w[2], w[3]))

(* v and w name the same point, or points one hex side apart *)
TooClose(v, w) == DistanceSq(v, w) = 0 \/ DistanceSq(v, w) = HEX_SIZE * HEX_SIZE

(* the keys a building is stored under *)
Built(g) == {v \in DOMAIN g.vertices : g.vertices[v].building # "none"}

(* every key of the hexes 0,0 and 0,-1 and 1,-1: the top corner of hex 0,0  *)
(* under its three keys, and its neighbours                                 *)
NearKeys == {<<h[1], h[2], dir>> : h \in {<<0, 0>>, <<0, -1>>, <<1, -1>>}, dir \in 0..5}

(* C16: no two buildings stand on the same physical vertex or on vertices   *)
(* joined by one edge, and placeSettlement fails for any key of a vertex    *)
(* that holds a building or has a neighbour that holds one, whichever key   *)
(* the building is stored under.                                            *)
C16_DistanceRule ==
  /\ \A v, w \in Built(game) : v # w => ~TooClose(v, w)
  /\ \A id \in Ids(game), v \in NearKeys :
       (\E w \in Built(game) : TooClose(v, w)) => ~placeSettlement(game, id, v).success

(* during setup a settlement was refused while the top corner of hex 0,0    *)
(* was built on; every key offered names that corner or a built corner      *)
C16_Witness ==
  /\ last.op = "placeSettlement" /\ ~last.success
  /\ game.phase = "setup"
  /\ game.vertices[<<0, 0, 0>>].building = "settlement"
  /\ game.vertices[<<0, -1, 2>>].building = "none"


-----------------------------------------------------------------------------
(* C17: placing a settlement                                                *)

(* player i has a road on an edge that ends at the position of v, under     *)
(* whichever key the road is stored                                         *)
RoadTouches(g, i, v) ==
  \E e \in DOMAIN g.edges :
    /\ g.edges[e].road
    /\ g.edges[e].owner = i
    /\ \E end \in Range(getEdgeVertices(e[1], e[2], e[3])) : DistanceSq(end, v) = 0

(* the keys of the hexes the settlements of the recorded games lie on *)
SettleKeys ==
  {<<h[1], h[2], dir>> : h \in {<<0, 0>>, <<1, -1>>, <<2, -1>>, <<2, -2>>}, dir \in 0..5}

(* one more visible point for player i brings some player to 10 in all *)
EndsGame(g, i) ==
  \E j \in DOMAIN g.players :
    g.players[j].victoryPoints + g.players[j].hiddenVictoryPoints
      + (IF j = i THEN 1 ELSE 0) >= 10

(* the visible points of player i after one more point: revealed with the   *)
(* hidden ones when the point ends the game and reveal is taken into account *)
PointsAfter(g, i, reveal) ==
  g.players[i].victoryPoints + 1
    + (IF reveal /\ EndsGame(g, i) THEN g.players[i].hiddenVictoryPoints ELSE 0)

(* what an accepted placeSettlement demands and does outside the setup *)
PaidSettlement(g, i, v, after, reveal) ==
  /\ RoadTouches(g, i, v)
  /\ g.players[i].settlements >= 1
  /\ \A r \in {"brick", "lumber", "wool", "grain"} : g.players[i].resources[r] >= 1
  /\ after.players[i].resources =
       [r \in RESOURCES |-> g.players[i].resources[r] - (IF r = "ore" THEN 0 ELSE 1)]
  /\ after.players[i].settlements = g.players[i].settlements - 1
  /\ after.players[i].victoryPoints = PointsAfter(g, i, reveal)

(* in the setup a placement needs a player, a free corner of the board with *)
(* free neighbours and a piece, and nothing more; it takes no resource      *)
SetupSettlement(g, id, v, res) ==
  /\ res.success <=>
       /\ findPlayerIndex(g, id) # Null
       /\ v \in DOMAIN g.vertices
       /\ \A w \in Built(g) : ~TooClose(v, w)
       /\ g.players[findPlayerIndex(g, id)].settlements >= 1
  /\ \A i \in DOMAIN g.players, r \in RESOURCES :
       res.g.players[i].resources[r] >= g.players[i].resources[r]

SettlementContract(g, id, v, res, reveal) ==
  IF g.phase = "setup" THEN SetupSettlement(g, id, v, res)
  ELSE res.success =>
         /\ findPlayerIndex(g, id) # Null
         /\ PaidSettlement(g, findPlayerIndex(g, id), v, res.g, reveal)

(* C17, amended: outside the setup placeSettlement succeeds only if a road  *)
(* of the player ends at the vertex, the player has a settlement piece and  *)
(* 1 brick, 1 lumber, 1 wool and 1 grain; it then deducts exactly that, the *)
(* settlement inventory drops by 1 and the visible victory points rise by   *)
(* 1, or by 1 plus the player's hidden points when the placement ends the   *)
(* game.  In the setup neither a road nor resources are needed and no       *)
(* resource is deducted.                                                    *)
C17_PlaceSettlementContract ==
  \A id \in Ids(game), v \in SettleKeys :
    SettlementContract(game, id, v, placeSettlement(game, id, v), TRUE)

(* C17 as claimed: the visible victory points rise by 1 on every accepted   *)
(* placement outside the setup.                                             *)
C17_VisiblePointsRiseByOne ==
  \A id \in Ids(game), v \in SettleKeys :
    SettlementContract(game, id, v, placeSettlement(game, id, v), FALSE)

(* the settlement at the end of the second road has won the game: the five  *)
(* hidden points are visible                                                *)
C17_Witness ==
  /\ last = [op |-> "placeSettlement", success |-> TRUE]
  /\ game.phase = "finished"
  /\ game.vertices[<<2, -1, 1>>].building = "settlement"
  /\ game.players[0].victoryPoints = 10
  /\ game.players[0].hiddenVictoryPoints = 0


-----------------------------------------------------------------------------
(* C18: the resources of the second setup settlement                        *)

(* hex h has a corner at the position of v *)
HexSharesVertex(h, v) == \E dir \in 0..5 : DistanceSq(<<h[1], h[2], dir>>, v) = 0

(* the cards of resource r the hexes of the board around v stand for *)
HexesAround(g, v, r) ==
  Cardinality({h \in DOMAIN g.hexes : g.hexes[h].resource = r /\ HexSharesVertex(h, v)})

(* the keys of an inner hex, of a hex on the coast and of the desert *)
InitialKeys ==
  {<<h[1], h[2], dir>> : h \in {<<0, 0>>, <<2, -2>>, <<0, 2>>}, dir \in 0..5}

InitialResources(g, i, v, after) ==
  \A j \in DOMAIN g.players, r \in RESOURCES :
    after.players[j].resources[r] =
      g.players[j].resources[r]
        + (IF j = i /\ g.setupPhase = 1 THEN HexesAround(g, v, r) ELSE 0)

(* C18: a settlement placed in setup sub-phase 1 gives its owner one card   *)
(* of the resource of each hex of the board that has a corner at the        *)
(* vertex (the desert and positions off the board give nothing) and nothing *)
(* else; a settlement placed in sub-phase 0 gives no resources; no other    *)
(* player's hand changes.                                                   *)
C18_InitialResources ==
  game.phase = "setup" =>
    \A id \in Ids(game), v \in InitialKeys :
      placeSettlement(game, id, v).success =>
        InitialResources(game, findPlayerIndex(game, id), v,
                         placeSettlement(game, id, v).g)

(* player 2 has placed its second settlement on the bottom corner of hex    *)
(* 0,0 and holds the brick, the lumber and the wool of the three hexes      *)
C18_Witness ==
  /\ last = [op |-> "placeSettlement", success |-> TRUE]
  /\ game.phase = "setup"
  /\ game.setupPhase = 1
  /\ game.vertices[<<0, 0, 3>>].building = "settlement"
  /\ game.players[1].resources = [NoResources EXCEPT !.brick = 1, !.lumber = 1, !.wool = 1]


-----------------------------------------------------------------------------
(* C19: lookups of a building under equivalent keys                         *)

(* v and w are keys of the same vertex, and the vertex holds a building *)
SameBuiltVertex(g, v, w) ==
  /\ DistanceSq(v, w) = 0
  /\ \E b \in Built(g) : DistanceSq(b, v) = 0

(* the occupancy check of canPlaceSettlement and the own-building check of  *)
(* canPlaceRoad answer alike under v and under w                            *)
ChecksAgree(g, id, v, w) ==
  /\ canPlaceSettlement(g, id, v, g.phase = "setup")
       = canPlaceSettlement(g, id, w, g.phase = "setup")
  /\ findPlayerIndex(g, id) # Null =>
       hasPlayerBuildingAtVertex(g, v, findPlayerIndex(g, id))
         = hasPlayerBuildingAtVertex(g, w, findPlayerIndex(g, id))

(* a player has the ports at whose corners it has a building, under         *)
(* whichever key the building is stored                                     *)
PortsByPosition(g) ==
  \A i \in DOMAIN g.players, k \in DOMAIN g.ports :
    (g.ports[k] \in Range(getPlayerPorts(g, i))) <=>
      \E b \in Built(g), n \in DOMAIN g.ports[k].vertices :
        g.vertices[b].owner = i /\ DistanceSq(b, g.ports[k].vertices[n]) = 0

UpgradeAgrees(g, id, v, w) ==
  upgradeToCity(g, id, v).success = upgradeToCity(g, id, w).success

(* C19: for a vertex that holds a building, the occupancy check of          *)
(* canPlaceSettlement, the own-building check of canPlaceRoad, the port     *)
(* access of getPlayerPorts and the settlement lookup of upgradeToCity give *)
(* the same result under every key of the vertex that is on the board.      *)
C19_EquivalenceInvariance ==
  /\ PortsByPosition(game)
  /\ \A id \in Ids(game), v, w \in NearKeys :
       SameBuiltVertex(game, v, w) =>
         ChecksAgree(game, id, v, w) /\ UpgradeAgrees(game, id, v, w)


-----------------------------------------------------------------------------
(* C20: upgrading a settlement to a city                                    *)

(* player i is the active player in fine phase main or holds the            *)
(* special-building slot                                                    *)
MayBuild(g, i) ==
  \/ g.currentPlayerIndex = i /\ g.turnPhase = "main"
  \/ g.turnPhase = "specialBuild" /\ g.specialBuildIndex = i

(* the keys of the hexes the upgraded settlements of the recorded games lie *)
(* on                                                                       *)
CityKeys ==
  {<<h[1], h[2], dir>> : h \in {<<0, 0>>, <<1, -1>>, <<2, -2>>, <<-1, 0>>}, dir \in 0..5}

(* what an accepted upgradeToCity of player i at v demands and does *)
CityBuilt(g, i, v, after, reveal) ==
  /\ MayBuild(g, i)
  /\ \E b \in Built(g) :
       /\ DistanceSq(b, v) = 0
       /\ g.vertices[b] = [building |-> "settlement", owner |-> i]
       /\ after.vertices = [g.vertices EXCEPT ![b].building = "city"]
  /\ g.players[i].cities >= 1
  /\ g.players[i].resources.ore >= 3
  /\ g.players[i].resources.grain >= 2
  /\ after.players[i].resources =
       [g.players[i].resources EXCEPT !.ore = @ - 3, !.grain = @ - 2]
  /\ after.players[i].settlements = g.players[i].settlements + 1
  /\ after.players[i].cities = g.players[i].cities - 1
  /\ after.players[i].victoryPoints = PointsAfter(g, i, reveal)

CityContract(g, id, v, res, reveal) ==
  IF res.success
  THEN /\ findPlayerIndex(g, id) # Null
       /\ CityBuilt(g, findPlayerIndex(g, id), v, res.g, reveal)
  ELSE res.g = g

(* no call removes a building or turns a city back into a settlement *)
BuildingsStay ==
  \A v \in DOMAIN game.vertices :
    /\ game.vertices[v].building # "none" => game'.vertices[v].building # "none"
    /\ game.vertices[v].building = "city" => game'.vertices[v].building = "city"

(* C20, amended: upgradeToCity succeeds only if the caller is the active    *)
(* player in fine phase main or holds the special-building slot, the vertex *)
(* holds a settlement of the caller, and the caller has a city piece, 3 ore *)
(* and 2 grain; it then makes the building a city of the same owner,        *)
(* deducts exactly 3 ore and 2 grain, returns a settlement piece, takes a   *)
(* city piece and raises the visible victory points by 1, or by 1 plus the  *)
(* caller's hidden points when the upgrade ends the game; a refused call    *)
(* changes nothing.  No building is ever removed and no city reverts.       *)
C20_UpgradeToCityContract ==
  /\ [](\A id \in Ids(game), v \in CityKeys :
          CityContract(game, id, v, upgradeToCity(game, id, v), TRUE))
  /\ [][BuildingsStay]_vars

(* C20 as claimed: the visible victory points rise by exactly 1 on every    *)
(* accepted upgrade.                                                        *)
C20_VisiblePointsRiseByExactlyOne ==
  /\ [](\A id \in Ids(game), v \in CityKeys :
          CityContract(game, id, v, upgradeToCity(game, id, v), FALSE))
  /\ [][BuildingsStay]_vars

(* player 3 has built a city in its special-building slot of player 2's     *)
(* turn                                                                     *)
C20_Witness ==
  /\ last = [op |-> "upgradeToCity", success |-> TRUE]
  /\ game.turnPhase = "specialBuild"
  /\ game.currentPlayerIndex = 1
  /\ game.specialBuildIndex = 2
  /\ game.vertices[<<-1, 0, 0>>] = [building |-> "city", owner |-> 2]


-----------------------------------------------------------------------------
(* C21: one road to an edge, for good                                       *)

(* e and f are keys of the same edge: their ends lie at the same positions *)
SameEdge(e, f) ==
  \A a \in Range(getEdgeVertices(e[1], e[2], e[3])) :
    \E b \in Range(getEdgeVertices(f[1], f[2], f[3])) : DistanceSq(a, b) = 0

Roads(g) == {e \in DOMAIN g.edges : g.edges[e].road}

(* the player that owns the road on e *)
RoadOwnerId(g, e) == g.players[g.edges[e].owner].id

(* the keys of the edges of hex 0,0 and of two hexes that share an edge     *)
(* with it                                                                  *)
RoadKeys ==
  {<<h[1], h[2], dir>> : h \in {<<0, 0>>, <<1, -1>>, <<-1, 1>>}, dir \in 0..5}

(* no edge carries two roads, and placeRoad refuses every key of an edge    *)
(* that carries one                                                         *)
OneRoadPerEdge(g) ==
  /\ \A e, f \in Roads(g) : e # f => ~SameEdge(e, f)
  /\ \A id \in Ids(g), e \in RoadKeys, isSetup \in BOOLEAN, ls \in LastSettlementsIn :
       (\E f \in Roads(g) : SameEdge(e, f)) => ~placeRoad(g, id, e, isSetup, ls).success

(* the roads of the game stay, each with the player that owns it *)
RoadsStay ==
  \A e \in Roads(game) :
    /\ game'.edges[e].road
    /\ RoadOwnerId(game', e) = RoadOwnerId(game, e)

(* C21: each physical edge holds at most one road in every reachable state, *)
(* placeRoad fails when a road exists under the given key or under its      *)
(* equivalent key, and a road once placed stays, with the same owner.       *)
C21_OneRoadPerEdgeForGood ==
  /\ []OneRoadPerEdge(game)
  /\ [][RoadsStay]_vars


-----------------------------------------------------------------------------
(* C22: the price of a road                                                 *)

(* an accepted placeRoad of player i took exactly 1 brick and 1 lumber that *)
(* the player held                                                          *)
RoadPaid(g, i, after) ==
  /\ g.players[i].resources.brick >= 1
  /\ g.players[i].resources.lumber >= 1
  /\ after.players[i].resources =
       [g.players[i].resources EXCEPT !.brick = @ - 1, !.lumber = @ - 1]

(* an accepted placeRoad is paid for, unless the phase is setup or a        *)
(* free-road credit is spent on it                                          *)
RoadPrice(g, i, after) ==
  IF g.phase = "setup" THEN after.players[i].resources = g.players[i].resources
  ELSE IF g.freeRoads > 0
  THEN /\ after.freeRoads = g.freeRoads - 1
       /\ after.players[i].resources = g.players[i].resources
  ELSE RoadPaid(g, i, after)

(* C22: when the phase is not setup and no free-road credit is outstanding, *)
(* an accepted placeRoad needs and deducts exactly 1 brick and 1 lumber,    *)
(* whatever arguments the request carries; a road is free only during the   *)
(* setup or against one free-road credit, which then drops by exactly 1.    *)
C22_RoadIsPaidFor ==
  \A id \in Ids(game), e \in RoadKeys, isSetup \in BOOLEAN, ls \in LastSettlementsIn :
    placeRoad(game, id, e, isSetup, ls).success =>
      RoadPrice(game, findPlayerIndex(game, id), placeRoad(game, id, e, isSetup, ls).g)


-----------------------------------------------------------------------------
(* C23: the holder of the longest road                                      *)

(* C23: in every reachable state, a longest-road holder has a longest       *)
(* continuous road, recomputed from the board, of at least 5 that is at     *)
(* least as long as every other player's.                                   *)
C23_LongestRoadHolderIsLongest ==
  game.longestRoadPlayer # Null =>
    /\ calculateRoadLength(game, game.longestRoadPlayer) >= 5
    /\ \A j \in DOMAIN game.players :
         calculateRoadLength(game, j) <= calculateRoadLength(game, game.longestRoadPlayer)


-----------------------------------------------------------------------------
(* C24: whenever a largest-army holder is set, it has played at least three *)
(* knights and no player has played more; exactly the holder carries the    *)
(* hasLargestArmy flag; and the step in which a player is the first to have *)
(* played three knights makes that player the holder.                       *)
KnightsOf(g, i) == g.players[i].knightsPlayed

ArmyHolderLeads(g) ==
  g.largestArmyPlayer # Null =>
    /\ g.largestArmyPlayer \in DOMAIN g.players
    /\ KnightsOf(g, g.largestArmyPlayer) >= 3
    /\ \A j \in DOMAIN g.players : KnightsOf(g, j) <= KnightsOf(g, g.largestArmyPlayer)

ArmyFlagOnHolderOnly(g) ==
  \A i \in DOMAIN g.players : g.players[i].hasLargestArmy <=> i = g.largestArmyPlayer

FirstToThreeKnights ==
  \A i \in DOMAIN game'.players :
    (/\ \A j \in DOMAIN game.players : KnightsOf(game, j) < 3
     /\ KnightsOf(game', i) >= 3)
      => game'.largestArmyPlayer = i

C24_LargestArmyHolder ==
  /\ [](ArmyHolderLeads(game) /\ ArmyFlagOnHolderOnly(game))
  /\ [][FirstToThreeKnights]_vars


-----------------------------------------------------------------------------
(* C25: updateLongestRoad assigns the title by the maximum M of the         *)
(* players' road lengths: below 5 nobody holds it; a holder whose length    *)
(* is M keeps it, also when tied; otherwise a single player at M takes it;  *)
(* otherwise nobody holds it.  A loss takes 2 visible points from the old   *)
(* holder and a gain gives 2 to the new one.                                *)
RoadLengths(g) == [i \in DOMAIN g.players |-> calculateRoadLength(g, i)]

(* the holder the four rules name, for holder h, lengths L and maximum M *)
RuledHolder(h, L, M) ==
  IF M < 5 THEN Null
  ELSE IF h # Null /\ L[h] = M THEN h
  ELSE IF Cardinality({i \in DOMAIN L : L[i] = M}) = 1
  THEN CHOOSE i \in DOMAIN L : L[i] = M
  ELSE Null

(* the points the title moves for player i when it passes from h to h2 *)
TitleDelta(i, h, h2) ==
  (IF i = h2 /\ h2 # h THEN 2 ELSE 0) - (IF i = h /\ h2 # h THEN 2 ELSE 0)

(* the passing of the title brings some player to 10 points in all *)
TitleEndsGame(g, h, h2) ==
  \E j \in DOMAIN g.players :
    g.players[j].victoryPoints + g.players[j].hiddenVictoryPoints
      + TitleDelta(j, h, h2) >= 10

(* the visible points of the old and the new holder after the title passed  *)
(* from h to h2; with reveal, the hidden points are added when that ends    *)
(* the game                                                                 *)
TitlePoints(g, after, h, h2, reveal) ==
  \A i \in DOMAIN g.players :
    (h2 # h /\ i \in {h, h2}) =>
      after.players[i].victoryPoints =
        g.players[i].victoryPoints + TitleDelta(i, h, h2)
          + (IF reveal /\ TitleEndsGame(g, h, h2)
             THEN g.players[i].hiddenVictoryPoints ELSE 0)

TitleRules(g, after, L, reveal) ==
  /\ after.longestRoadPlayer =
       RuledHolder(g.longestRoadPlayer, L, MaxOfSet({L[i] : i \in DOMAIN L}))
  /\ TitlePoints(g, after, g.longestRoadPlayer, after.longestRoadPlayer, reveal)

(* the edges on which the recorded games decide the title, and one more *)
TitleKeys == {<<0, 0, 2>>, <<0, 0, 5>>, <<1, -1, 5>>, <<0, 0, 4>>}

(* updateLongestRoad called on the state as it is, and, in the states of    *)
(* the recorded games, called by every placeRoad that succeeds on one of    *)
(* those edges                                                              *)
TitleRulesKept(reveal) ==
  /\ \A L \in {RoadLengths(game)} :
       TitleRules(game, updateLongestRoad(game), L, reveal)
  /\ \A id \in (IF calls = 0 THEN CallerIds ELSE {}), e \in TitleKeys :
       \A res \in {placeRoad(game, id, e, FALSE, <<>>)} :
         res.success =>
           \A L \in {RoadLengths(res.g)} : TitleRules(game, res.g, L, reveal)

(* C25 as stated: every loss is exactly 2 points and every gain exactly 2 *)
C25_TitleMovesExactlyTwoPoints == TitleRulesKept(FALSE)

(* C25, amended: the rules hold, and the title moves exactly 2 points       *)
(* unless that ends the game, when the hidden points are revealed as well   *)
C25_LongestRoadRules == TitleRulesKept(TRUE)

(* a road was laid and left two players tied in front of a holder who lost  *)
(* the title: nobody holds it                                               *)
C25_Witness ==
  /\ last = [op |-> "placeRoad", success |-> TRUE]
  /\ game.longestRoadPlayer = Null
  /\ Cardinality({i \in DOMAIN game.players : calculateRoadLength(game, i) = 5}) = 2
  /\ \E i \in DOMAIN game.players :
       calculateRoadLength(game, i) = 4 /\ game.players[i].victoryPoints = 2


-----------------------------------------------------------------------------
(* C26: updateLongestRoad is idempotent: a second call right after the      *)
(* first leaves the holder, the stored length, every player's roadLength    *)
(* and hasLongestRoad flag and victory points as the first call left them.  *)
TitleView(g) ==
  [holder |-> g.longestRoadPlayer,
   length |-> g.longestRoadLength,
   players |-> [i \in DOMAIN g.players |->
                  [roadLength |-> g.players[i].roadLength,
                   hasLongestRoad |-> g.players[i].hasLongestRoad,
                   victoryPoints |-> g.players[i].victoryPoints]]]

C26_UpdateLongestRoadIdempotent ==
  \A once \in {updateLongestRoad(game)} :
    TitleView(updateLongestRoad(once)) = TitleView(once)

(* a holder whose road was cut: the first call changes the holder *)
C26_Witness ==
  /\ game.longestRoadPlayer # Null
  /\ updateLongestRoad(game).longestRoadPlayer # game.longestRoadPlayer


-----------------------------------------------------------------------------
(* C27: while the game is not finished every player's visible victory       *)
(* points are its settlements on the board, plus 2 for each of its cities,  *)
(* plus 2 for the longest road and 2 for the largest army if it holds them; *)
(* once the game is finished they are that sum plus its revealed            *)
(* victory-point cards.                                                     *)
BuildingsOf(g, i, kind) ==
  Cardinality({v \in DOMAIN g.vertices :
                 g.vertices[v].building = kind /\ g.vertices[v].owner = i})

BoardPoints(g, i) ==
  BuildingsOf(g, i, "settlement") + 2 * BuildingsOf(g, i, "city")
    + (IF g.longestRoadPlayer = i THEN 2 ELSE 0)
    + (IF g.largestArmyPlayer = i THEN 2 ELSE 0)

(* the victory-point cards of player i whose points are no longer hidden *)
RevealedCards(g, i) ==
  Cardinality({k \in DOMAIN g.players[i].developmentCards :
                 g.players[i].developmentCards[k] = "victoryPoint"})
    + Cardinality({k \in DOMAIN g.players[i].newDevCards :
                     g.players[i].newDevCards[k] = "victoryPoint"})
    - g.players[i].hiddenVictoryPoints

PointsAccounted(g) ==
  \A i \in DOMAIN g.players :
    g.players[i].victoryPoints =
      BoardPoints(g, i) + (IF g.phase = "finished" THEN RevealedCards(g, i) ELSE 0)

C27_VisiblePointsAreBoardPoints == PointsAccounted(game)


-----------------------------------------------------------------------------
(* C28: after every operation, if some player's visible plus hidden points  *)
(* are 10 or more, the phase is finished, the winner is the id of a player  *)
(* with 10 or more, and every player's hidden points are 0, added to the    *)
(* visible ones; and the phase becomes finished only when some player       *)
(* reached 10.                                                              *)
TotalPoints(g, i) == g.players[i].victoryPoints + g.players[i].hiddenVictoryPoints

SomeoneAtTen(g) == \E i \in DOMAIN g.players : TotalPoints(g, i) >= 10

WinnerDeclared(g) ==
  SomeoneAtTen(g) =>
    /\ g.phase = "finished"
    /\ \E i \in DOMAIN g.players : g.players[i].id = g.winner /\ TotalPoints(g, i) >= 10
    /\ \A i \in DOMAIN g.players : g.players[i].hiddenVictoryPoints = 0

(* a step that ends the game reveals each hidden point and has a winner *)
FinishedByTen ==
  (game.phase # "finished" /\ game'.phase = "finished") =>
    /\ SomeoneAtTen(game')
    /\ \A i \in DOMAIN game'.players :
         \E j \in DOMAIN game.players :
           /\ game.players[j].id = game'.players[i].id
           /\ TotalPoints(game', i) >= TotalPoints(game, j)

C28_TenPointsEndTheGame == []WinnerDeclared(game) /\ [][FinishedByTen]_vars


-----------------------------------------------------------------------------
(* C29: bankTrade succeeds only for the active player in fine phase main,   *)
(* only when giveAmount is the player's best ratio for the given resource   *)
(* (2 with a building on a corner of that resource's 2:1 port, else 3 with  *)
(* one on a corner of a generic port, else 4) and the player holds that     *)
(* many; then the given resource drops by the ratio and the received one    *)
(* rises by 1; any other giveAmount fails with the ratio reason and         *)
(* changes nothing.                                                         *)

(* player i has a building on the point of a corner of port k *)
OnPort(g, i, k) ==
  \E b \in Built(g), n \in DOMAIN g.ports[k].vertices :
    g.vertices[b].owner = i /\ DistanceSq(b, g.ports[k].vertices[n]) = 0

BestRatio(g, i, resource) ==
  IF \E k \in DOMAIN g.ports :
       g.ports[k].type # "GENERIC" /\ g.ports[k].resource = resource /\ OnPort(g, i, k)
  THEN 2
  ELSE IF \E k \in DOMAIN g.ports : g.ports[k].type = "GENERIC" /\ OnPort(g, i, k)
  THEN 3
  ELSE 4

BankAmounts == 1..5

MayTrade(g, i) == i # Null /\ g.currentPlayerIndex = i /\ g.turnPhase = "main"

(* what a call of bankTrade by player index i with result res owes the claim *)
BankContract(g, i, give, amount, get, res) ==
  /\ res.success =>
       /\ MayTrade(g, i)
       /\ amount = BestRatio(g, i, give)
       /\ g.players[i].resources[give] >= amount
       /\ res.g.players[i].resources[give] = g.players[i].resources[give] - amount
       /\ res.g.players[i].resources[get] = g.players[i].resources[get] + 1
       /\ \A r \in RESOURCES \ {give, get} :
            res.g.players[i].resources[r] = g.players[i].resources[r]
       /\ res.g = [g EXCEPT !.players[i].resources = res.g.players[i].resources]
  /\ ~res.success => res.g = g
  /\ (MayTrade(g, i) /\ amount # BestRatio(g, i, give)) =>
       ~res.success /\ res.error = "Trade requires the port ratio"

C29_BankTradeContract ==
  \A id \in CallerIds, give \in RESOURCES, amount \in BankAmounts, get \in RESOURCES :
    BankContract(game, findPlayerIndex(game, id), give, amount, get,
                 bankTrade(game, id, give, amount, get))


-----------------------------------------------------------------------------
(* C30: a successful playDevCard of monopoly for resource X sets every      *)
(* other player's X to 0 and raises the caller's X by the sum of the        *)
(* removed amounts, so the total of X over all players is unchanged; no     *)
(* counter of another resource changes.                                     *)
RECURSIVE SumOver(_, _, _)
SumOver(g, S, X) ==
  IF S = {} THEN 0
  ELSE LET i == CHOOSE j \in S : TRUE
       IN g.players[i].resources[X] + SumOver(g, S \ {i}, X)

MonopolyEffect(g, c, X, after) ==
  /\ \A i \in DOMAIN g.players \ {c} : after.players[i].resources[X] = 0
  /\ after.players[c].resources[X] =
       g.players[c].resources[X] + SumOver(g, DOMAIN g.players \ {c}, X)
  /\ SumOver(after, DOMAIN after.players, X) = SumOver(g, DOMAIN g.players, X)
  /\ \A i \in DOMAIN g.players, r \in RESOURCES \ {X} :
       after.players[i].resources[r] = g.players[i].resources[r]

C30_MonopolyMovesEveryCard ==
  \A id \in CallerIds, X \in RESOURCES :
    \A res \in {playDevCard(game, id, "monopoly", X)} :
      res.success => MonopolyEffect(game, findPlayerIndex(game, id), X, res.g)

(* player 1 played the monopoly for lumber: it took the 1 lumber of player *)
(* 2 and the 2 lumber of player 3, whose other cards stayed                 *)
C30_Witness ==
  /\ last = [op |-> "playDevCard", success |-> TRUE]
  /\ game.devCardPlayedThisTurn
  /\ Length(game.players) = 3
  /\ game.players[0].resources.lumber = 3
  /\ game.players[1].resources.lumber = 0
  /\ game.players[2].resources.lumber = 0
  /\ game.players[1].resources.brick = 3
  /\ game.players[2].resources.wool = 1
  /\ ~ \E k \in DOMAIN game.players[0].developmentCards :
         game.players[0].developmentCards[k] = "monopoly"


-----------------------------------------------------------------------------
(* getPlayerView: the state sent to one client.  A redacted hand is a       *)
(* number where the own hand is a record or a sequence.                     *)
getPlayerViewShowsHidden(g, playerId) ==
  LET playerIndex == findPlayerIndex(g, playerId)
      isGameOver == g.phase = "finished"
      shown(idx) == isGameOver \/ idx = playerIndex
      view(p, idx) ==
        [id |-> p.id, turnOrder |-> p.turnOrder, knightsPlayed |-> p.knightsPlayed,
         victoryPoints |-> p.victoryPoints, settlements |-> p.settlements,
         cities |-> p.cities, roads |-> p.roads, hasLongestRoad |-> p.hasLongestRoad,
         hasLargestArmy |-> p.hasLargestArmy, roadLength |-> p.roadLength,
         developmentCards |-> IF shown(idx) THEN p.developmentCards
                              ELSE Len(p.developmentCards),
         newDevCards |-> IF shown(idx) THEN p.newDevCards ELSE Len(p.newDevCards),
         resources |-> IF shown(idx) THEN p.resources ELSE TotalCards(p.resources),
         hiddenVictoryPoints |-> p.hiddenVictoryPoints]
  IN [myIndex |-> playerIndex,
      myPorts |-> getPlayerPorts(g, playerIndex),
      tradeRatios |-> [r \in RESOURCES |-> getTradeRatio(g, playerIndex, r)],
      state |-> [g EXCEPT !.players = [idx \in DOMAIN g.players |-> view(g.players[idx], idx)],
                          !.devCardDeck = Len(g.devCardDeck)]]

(* the view is the game record (...game) with players and devCardDeck       *)
(* replaced and myIndex, myPorts and tradeRatios added: the field state     *)
(* holds the spread fields                                                  *)
getPlayerView(g, playerId) ==
  LET playerIndex == findPlayerIndex(g, playerId)
      isGameOver == g.phase = "finished"
      shown(idx) == isGameOver \/ idx = playerIndex
      view(p, idx) ==
        [id |-> p.id, turnOrder |-> p.turnOrder, knightsPlayed |-> p.knightsPlayed,
         victoryPoints |-> p.victoryPoints, settlements |-> p.settlements,
         cities |-> p.cities, roads |-> p.roads, hasLongestRoad |-> p.hasLongestRoad,
         hasLargestArmy |-> p.hasLargestArmy, roadLength |-> p.roadLength,
         developmentCards |-> IF shown(idx) THEN p.developmentCards
                              ELSE Len(p.developmentCards),
         newDevCards |-> IF shown(idx) THEN p.newDevCards ELSE Len(p.newDevCards),
         resources |-> IF shown(idx) THEN p.resources ELSE TotalCards(p.resources),
         hiddenVictoryPoints |-> IF shown(idx) THEN p.hiddenVictoryPoints ELSE 0]
  IN [myIndex |-> playerIndex,
      myPorts |-> getPlayerPorts(g, playerIndex),
      tradeRatios |-> [r \in RESOURCES |-> getTradeRatio(g, playerIndex, r)],
      state |-> [g EXCEPT !.players = [idx \in DOMAIN g.players |-> view(g.players[idx], idx)],
                          !.devCardDeck = Len(g.devCardDeck)]]


-----------------------------------------------------------------------------
(* C31: while the phase is not finished, getPlayerView for a requester is   *)
(* the same for two states that differ only in another player's hand        *)
(* composition (same totals and card counts), hidden victory points or the  *)
(* order of the draw pile; the requester's own resources, cards and hidden  *)
(* victory points appear as they are, and once the phase is finished every  *)
(* player's do.                                                             *)
HiddenIn == 0..2

Reversed(s) == [k \in 1..Len(s) |-> s[Len(s) + 1 - k]]

(* states that differ from g only in what player j keeps private: one card *)
(* of the hand turned into the next resource, other hidden victory points,  *)
(* other cards of the same number, the draw pile reversed, and all of these *)
(* at once                                                                  *)
PrivateVariants(g, j) ==
  LET p == g.players[j]
      moved == {[p.resources EXCEPT ![ResourceOrder[k]] = @ - 1,
                                    ![ResourceOrder[(k % 5) + 1]] = @ + 1] :
                  k \in {x \in 1..5 : p.resources[ResourceOrder[x]] > 0}}
      cards == {"knight", "victoryPoint"}
      all == [g EXCEPT !.players[j].resources = CHOOSE r \in moved : TRUE,
                       !.players[j].hiddenVictoryPoints = (@ + 1) % 3,
                       !.players[j].developmentCards = Reversed(@),
                       !.players[j].newDevCards = Rep(Len(@), "monopoly"),
                       !.devCardDeck = Reversed(@)]
  IN {[g EXCEPT !.players[j].resources = r] : r \in moved}
       \cup {[g EXCEPT !.players[j].hiddenVictoryPoints = h] : h \in HiddenIn}
       \cup {[g EXCEPT !.players[j].developmentCards = Rep(Len(@), c)] : c \in cards}
       \cup {[g EXCEPT !.players[j].newDevCards = Rep(Len(@), c)] : c \in cards}
       \cup {[g EXCEPT !.devCardDeck = Reversed(@)]}
       \cup (IF moved = {} THEN {} ELSE {all})

Unredacted(g, view, i) ==
  /\ view.state.players[i].resources = g.players[i].resources
  /\ view.state.players[i].developmentCards = g.players[i].developmentCards
  /\ view.state.players[i].newDevCards = g.players[i].newDevCards
  /\ view.state.players[i].hiddenVictoryPoints = g.players[i].hiddenVictoryPoints

C31_ViewHidesPrivateState ==
  \A id \in CallerIds :
    \A view \in {getPlayerView(game, id)} :
      /\ game.phase # "finished" =>
           \A j \in DOMAIN game.players \ {findPlayerIndex(game, id)} :
             \A g2 \in PrivateVariants(game, j) : getPlayerView(g2, id) = view
      /\ findPlayerIndex(game, id) # Null =>
           Unredacted(game, view, findPlayerIndex(game, id))
      /\ game.phase = "finished" =>
           \A i \in DOMAIN game.players : Unredacted(game, view, i)

(* in a game that is not over a player sees 0 hidden victory points, a card *)
(* total and card counts of an opponent who holds hidden victory points,    *)
(* two kinds of resources and development cards                             *)
C31_Witness ==
  /\ game.phase = "playing"
  /\ \E id \in CallerIds, j \in DOMAIN game.players :
       /\ findPlayerIndex(game, id) \notin {Null, j}
       /\ game.players[j].hiddenVictoryPoints > 0
       /\ Cardinality({r \in RESOURCES : game.players[j].resources[r] > 0}) >= 2
       /\ Len(game.players[j].developmentCards) > 0
       /\ getPlayerView(game, id).state.players[j].hiddenVictoryPoints = 0
       /\ getPlayerView(game, id).state.players[j].resources =
            TotalCards(game.players[j].resources)
       /\ getPlayerView(game, id).state.players[j].developmentCards =
            Len(game.players[j].developmentCards)


-----------------------------------------------------------------------------
(* C32: a card bought with buyDevCard goes to the buyer's newDevCards and   *)
(* cannot be played until the buyer's own next successful endTurn has moved *)
(* it into developmentCards; between two consecutive successful endTurn     *)
(* calls at most one playDevCard succeeds.                                  *)
IdsOf(g) == {g.players[i].id : i \in DOMAIN g.players}

CardsOf(g, id) == g.players[findPlayerIndex(g, id)].developmentCards

NewCardsOf(g, id) == g.players[findPlayerIndex(g, id)].newDevCards

(* s without one occurrence of some card *)
OneCardLess(s, t) ==
  \E k \in DOMAIN s : t = RemoveAt(s, k)

(* what one step may do to the two card lists of the player id *)
CardStep(id) ==
  LET old == CardsOf(game, id)
      new == NewCardsOf(game, id)
      mine == game.players[game.currentPlayerIndex].id = id
  IN \/ CardsOf(game', id) = old /\ NewCardsOf(game', id) = new
     \/ /\ last' = [op |-> "buyDevCard", success |-> TRUE]
        /\ canPlayerBuildNow(game, id)
        /\ Len(game.devCardDeck) > 0
        /\ NewCardsOf(game', id) = Append(new, game.devCardDeck[Len(game.devCardDeck)])
        /\ CardsOf(game', id) = old
     \/ /\ last' = [op |-> "endTurn", success |-> TRUE]
        /\ mine
        /\ CardsOf(game', id) = old \o new
        /\ NewCardsOf(game', id) = <<>>
     \/ /\ last'.op = "playDevCard"
        /\ mine
        /\ OneCardLess(old, CardsOf(game', id))
        /\ NewCardsOf(game', id) = new

NewCardsWait ==
  \A id \in IdsOf(game) : id \in IdsOf(game') /\ CardStep(id)

OnePlayPerTurn ==
  /\ last' = [op |-> "playDevCard", success |-> TRUE] =>
       ~game.devCardPlayedThisTurn /\ game'.devCardPlayedThisTurn
  /\ (game.devCardPlayedThisTurn /\ ~game'.devCardPlayedThisTurn) =>
       last' = [op |-> "endTurn", success |-> TRUE]

C32_BoughtCardsWaitForEndTurn == [][NewCardsWait /\ OnePlayPerTurn]_vars

(* a player played a card in a turn in which it also bought one, which is   *)
(* still in newDevCards                                                     *)
C32_Witness ==
  /\ last = [op |-> "playDevCard", success |-> TRUE]
  /\ game.devCardPlayedThisTurn
  /\ Len(game.players[game.currentPlayerIndex].newDevCards) > 0


-----------------------------------------------------------------------------
(* C33: for every hex coordinate in a bounded range and every direction,    *)
(* getEquivalentVertices returns exactly 3 pairwise distinct                *)
(* representations and getEquivalentEdges exactly 2; calling either on a    *)
(* returned representation yields the same set, so areVerticesEqual is      *)
(* reflexive, symmetric and transitive; the end vertices of an edge         *)
(* computed from one key are equivalent to those computed from its other    *)
(* key.                                                                     *)
GeometryRange == (0 - 3)..3

GeometryKeys == {<<q, r, dir>> : q \in GeometryRange, r \in GeometryRange, dir \in 0..5}

KeyOf(c) == <<c.q, c.r, c.dir>>

VertexClass(k) == {KeyOf(c) : c \in Range(getEquivalentVertices(k[1], k[2], k[3]))}

EdgeClass(k) == {KeyOf(c) : c \in Range(getEquivalentEdges(k[1], k[2], k[3]))}

EdgeEnds(k) == {VertexClass(v) : v \in Range(getEdgeVertices(k[1], k[2], k[3]))}

ClassLaws ==
  \A k \in GeometryKeys :
    /\ Len(getEquivalentVertices(k[1], k[2], k[3])) = 3
    /\ Cardinality(VertexClass(k)) = 3
    /\ \A e \in VertexClass(k) : VertexClass(e) = VertexClass(k)
    /\ Len(getEquivalentEdges(k[1], k[2], k[3])) = 2
    /\ Cardinality(EdgeClass(k)) = 2
    /\ \A e \in EdgeClass(k) : EdgeClass(e) = EdgeClass(k) /\ EdgeEnds(e) = EdgeEnds(k)
    /\ Cardinality(EdgeEnds(k)) = 2

EqualityLaws ==
  \A a \in GeometryKeys :
    /\ areVerticesEqual(a, a)
    /\ \A b \in GeometryKeys :
         /\ areVerticesEqual(a, b) = areVerticesEqual(b, a)
         /\ areVerticesEqual(a, b) = (b \in VertexClass(a))
         /\ areVerticesEqual(a, b) =>
              \A c \in GeometryKeys : areVerticesEqual(b, c) => areVerticesEqual(a, c)

(* the laws speak of keys only: they are evaluated in the states of the     *)
(* recorded game                                                            *)
C33_KeysFormEquivalenceClasses == calls = 0 => ClassLaws /\ EqualityLaws

(* a settlement and a road of the board are each stored under one key and   *)
(* have another key on the board that names the same corner or side         *)
C33_Witness ==
  /\ calls = 0
  /\ \E k \in DOMAIN game.vertices, e \in DOMAIN game.vertices :
       /\ game.vertices[k].building # "none"
       /\ e # k /\ areVerticesEqual(e, k)
       /\ game.vertices[e].building = "none"
  /\ \E k \in DOMAIN game.edges, e \in DOMAIN game.edges :
       /\ game.edges[k].road
       /\ e # k /\ e \in EdgeClass(k)
       /\ ~game.edges[e].road


-----------------------------------------------------------------------------
(* C34: calculateRoadLength(game, p) is the length of p's longest           *)
(* continuous road: the largest number of edges of a trail of p's roads in  *)
(* which consecutive roads share an end vertex, each road is used once, the *)
(* trail continues from the far end of the road it just traversed, and it   *)
(* does not continue through a vertex with an opponent's building (three    *)
(* roads meeting at one vertex give 2).                                     *)
RoadsOf(g, p) ==
  {getCanonicalEdgeKey(k) : k \in {e \in DOMAIN g.edges : g.edges[e].road /\ g.edges[e].owner = p}}

OpponentAt(g, corner, p) ==
  \E k \in corner : VertexAt(g, k).building # "none" /\ VertexAt(g, k).owner # p

(* the most roads a trail can add after the road it entered at the corner   *)
(* far, the roads of used being spent                                       *)
RECURSIVE TrailFrom(_, _, _, _, _)
TrailFrom(g, p, roads, far, used) ==
  IF OpponentAt(g, far, p) THEN 0
  ELSE MaxOfSet({0} \cup
         {1 + TrailFrom(g, p, roads, CHOOSE c \in EdgeEnds(n) : c # far, used \cup {n}) :
            n \in {m \in roads \ used : far \in EdgeEnds(m)}})

LongestTrail(g, p) ==
  LET roads == RoadsOf(g, p)
  IN MaxOfSet({0} \cup UNION {{1 + TrailFrom(g, p, roads, far, {e}) : far \in EdgeEnds(e)} :
                                e \in roads})

C34_RoadLengthIsLongestTrail ==
  \A p \in DOMAIN game.players : calculateRoadLength(game, p) = LongestTrail(game, p)


-----------------------------------------------------------------------------
(* C35: the active player rolls the dice once per turn: during playing,     *)
(* between two consecutive changes of currentPlayerIndex at most one        *)
(* rollDice succeeds, whatever development cards are played.  The state     *)
(* records that the active player has rolled since the last change either   *)
(* in hasRolledThisTurn or, after its endTurn, in the open special-build    *)
(* rotation: a roll must not succeed in such a state.                       *)
RolledThisTurn(g) == g.hasRolledThisTurn \/ g.specialBuildingPhase

RollIsFirstOfTurn ==
  (last' = [op |-> "rollDice", success |-> TRUE] /\ game.phase = "playing") =>
    ~RolledThisTurn(game)

(* the record is right: it is set by a roll and stays until the index       *)
(* changes                                                                  *)
RollRecordKept ==
  game.phase = "playing" /\ game'.phase = "playing" =>
    /\ last' = [op |-> "rollDice", success |-> TRUE] => RolledThisTurn(game')
    /\ (RolledThisTurn(game) /\ game'.currentPlayerIndex = game.currentPlayerIndex
          /\ last'.op # "startGame") => RolledThisTurn(game')

C35_OneRollPerTurn == [][RollIsFirstOfTurn /\ RollRecordKept]_vars


-----------------------------------------------------------------------------
(* C36: rollDice succeeds only while the coarse phase is playing: called in *)
(* waiting, setup or finished it fails, draws no dice, distributes no       *)
(* resources and leaves the fine phase unchanged.                           *)
RollNeedsPlaying ==
  (last'.op = "rollDice" /\ game.phase # "playing") =>
    /\ ~last'.success
    /\ game'.diceRoll = game.diceRoll
    /\ \A i \in DOMAIN game.players : game'.players[i].resources = game.players[i].resources
    /\ game'.turnPhase = game.turnPhase

C36_RollDiceOnlyWhilePlaying == [][RollNeedsPlaying]_vars


-----------------------------------------------------------------------------
(* C37: at the moment setup ends (the phase becomes playing) every player   *)
(* has exactly 2 settlements and exactly 2 roads on the board and holds no  *)
(* more resources than its second settlement granted (at most one per       *)
(* adjacent hex, so at most 3).                                             *)
SettlementsOf(g, i) ==
  {k \in DOMAIN g.vertices : g.vertices[k].building = "settlement" /\ g.vertices[k].owner = i}

SetupComplete(g) ==
  \A i \in DOMAIN g.players :
    /\ Cardinality(SettlementsOf(g, i)) = 2
    /\ Cardinality(RoadsOf(g, i)) = 2
    /\ TotalCards(g.players[i].resources) <= 3

SetupEndsComplete ==
  (game.phase = "setup" /\ game'.phase = "playing") => SetupComplete(game')

C37_SetupEndsWithTwoAndTwo == [][SetupEndsComplete]_vars


-----------------------------------------------------------------------------
(* C38: whatever arguments placeRoad is called with (isSetup,               *)
(* lastSettlement), every road had, when it was placed, an end vertex       *)
(* holding a building of its owner or touching another road of its owner.   *)
ConnectedToOwn(g, i, k) ==
  \E corner \in EdgeEnds(k) :
    \/ \E v \in corner : VertexAt(g, v).building # "none" /\ VertexAt(g, v).owner = i
    \/ \E m \in RoadsOf(g, i) : m # getCanonicalEdgeKey(k) /\ corner \in EdgeEnds(m)

NewRoadsConnect ==
  \A k \in DOMAIN game.edges :
    (~game.edges[k].road /\ game'.edges[k].road) =>
      ConnectedToOwn(game, game'.edges[k].owner, k)

C38_RoadsConnectWhenPlaced == [][NewRoadsConnect]_vars


-----------------------------------------------------------------------------
(* C39: piece conservation: for every player, settlements on the board plus *)
(* the settlement inventory is 5, cities on the board plus the city         *)
(* inventory is 4, roads on the board plus the road inventory is 15, every  *)
(* inventory is at least 0, and every building and road on the board is     *)
(* owned by the index of an existing player.                                *)
RoadKeysOf(g, i) == {k \in DOMAIN g.edges : g.edges[k].road /\ g.edges[k].owner = i}

PiecesConserved(g) ==
  /\ \A i \in DOMAIN g.players :
       /\ BuildingsOf(g, i, "settlement") + g.players[i].settlements = 5
       /\ BuildingsOf(g, i, "city") + g.players[i].cities = 4
       /\ Cardinality(RoadKeysOf(g, i)) + g.players[i].roads = 15
       /\ g.players[i].settlements >= 0
       /\ g.players[i].cities >= 0
       /\ g.players[i].roads >= 0
  /\ \A k \in DOMAIN g.vertices :
       g.vertices[k].building # "none" => g.vertices[k].owner \in DOMAIN g.players
  /\ \A k \in DOMAIN g.edges :
       g.edges[k].road => g.edges[k].owner \in DOMAIN g.players

C39_PieceConservation == PiecesConserved(game)


-----------------------------------------------------------------------------
(* C40: once game.winner has been set it never changes: no later operation  *)
(* replaces the winner or clears it, and no player's victory points change  *)
(* after the game is finished.                                              *)
PointsOf(g, id) ==
  <<g.players[findPlayerIndex(g, id)].victoryPoints,
    g.players[findPlayerIndex(g, id)].hiddenVictoryPoints>>

Frozen(g, after) ==
  /\ g.winner # Null => after.winner = g.winner
  /\ g.phase = "finished" =>
       \A id \in IdsOf(g) : id \in IdsOf(after) /\ PointsOf(after, id) = PointsOf(g, id)

WinnerStays == Frozen(game, game')

(* the same of an upgrade of each settlement of the board *)
NoUpgradeAfterTheEnd ==
  game.phase = "finished" =>
    \A id \in IdsOf(game), v \in DOMAIN game.vertices :
      game.vertices[v].building = "settlement" =>
        Frozen(game, upgradeToCity(game, id, v).g)

C40_WinnerIsFinal == [][WinnerStays]_vars /\ []NoUpgradeAfterTheEnd

=============================================================================
